---------------------------- MODULE Spec2Model ----------------------------
(***************************************************************************)
(* The expression runtime of the gramspec parser generator                 *)
(* (parser/src/parser.rs): a recursive evaluator of Expression values over *)
(* an input buffer with a cursor and a memo table.  The recursion of eval, *)
(* call_rule, get_longest_expression_match and circular_wrapper is modelled*)
(* as a machine with an explicit call stack: `ctl' is what the machine     *)
(* does next, `stack' holds the suspended callers with their locals.       *)
(* Text is a sequence of one-character strings; offsets are 0-based as in  *)
(* the source, so content[position..] starts at sequence index position+1. *)
(***************************************************************************)
EXTENDS Integers, Sequences, FiniteSets, TLC

\* ------------------------------------------------------------------ bounds
\* longest generated input text
MaxLen == 3
\* number of parse calls made on one parser instance
MaxParses == 2
MaxBody == 4
MaxText == 4

\* ------------------------------------------------------- Option<T> values
None == [some |-> FALSE, v |-> <<>>]
Some(x) == [some |-> TRUE, v |-> x]

Max(a, b) == IF a > b THEN a ELSE b

\* ------------------------------------------------------------------ Node
new_with_position(node_type, children, value, start_position, end_position) ==
    [node_type |-> node_type, children |-> children, value |-> value,
     start_position |-> start_position, end_position |-> end_position]

RECURSIVE get_end_pos(_)
get_end_pos(n) ==
    IF Len(n.children) > 0
    THEN get_end_pos(n.children[Len(n.children)])
    ELSE n.end_position

\* nodes.iter().map(|n| n.get_end_pos()).max(): None for an empty vector
RECURSIVE MaxEndPos(_)
MaxEndPos(nodes) ==
    IF Len(nodes) = 0 THEN None
    ELSE LET rest == MaxEndPos(Tail(nodes))
             h == get_end_pos(Head(nodes))
         IN  IF rest.some THEN Some(Max(h, rest.v)) ELSE Some(h)

\* ------------------------------------------------------------ Expression
NoExpr == <<>>
Expr(tag, a, b, s) == [tag |-> tag, a |-> a, b |-> b, s |-> s]
Rule(name) == Expr("Rule", NoExpr, NoExpr, name)
StringLiteral(s) == Expr("StringLiteral", NoExpr, NoExpr, s)
\* RegexLiteral: the anchored patterns ^[class] and ^[class]+ ; s is
\* [class |-> set of characters, many |-> BOOLEAN]
RegexLiteral(class, many) ==
    Expr("RegexLiteral", NoExpr, NoExpr, [class |-> class, many |-> many])
Keyword(k) == Expr("Keyword", NoExpr, NoExpr, k)
Or(a, b) == Expr("Or", a, b, <<>>)
And(a, b) == Expr("And", a, b, <<>>)
Optional(a) == Expr("Optional", a, NoExpr, <<>>)
RepeatZero(a) == Expr("RepeatZero", a, NoExpr, <<>>)
RepeatOne(a) == Expr("RepeatOne", a, NoExpr, <<>>)
DelimitRepeatZero(a, d) == Expr("DelimitRepeatZero", a, d, <<>>)
DelimitRepeatOne(a, d) == Expr("DelimitRepeatOne", a, d, <<>>)
Discard(a) == Expr("Discard", a, NoExpr, <<>>)
Meta(a) == Expr("Meta", a, NoExpr, <<>>)

ExprTags == {"Rule", "StringLiteral", "RegexLiteral", "Keyword", "Or", "And",
             "Optional", "RepeatZero", "RepeatOne", "DelimitRepeatZero",
             "DelimitRepeatOne", "Discard", "Meta"}

\* ------------------------------------------------------ primitive matchers
\* the characters of [^\S\r\n]: whitespace other than line terminators
HSpace == {" ", "\t"}

KEYWORDS == [ENDMARKER |-> <<"0">>]

\* content[position..].starts_with(s)
starts_with(content, position, s) ==
    /\ position + Len(s) <= Len(content)
    /\ \A i \in 1..Len(s) : content[position + i] = s[i]

\* length of the longest run of characters of `class' at `position'
RECURSIVE RunLen(_, _, _)
RunLen(content, position, class) ==
    IF position < Len(content) /\ content[position + 1] \in class
    THEN 1 + RunLen(content, position + 1, class)
    ELSE 0

\* Regex::new(regex).captures(&content[position..]): length of the match of
\* an anchored character-class pattern, None when it does not match
RegexMatch(content, position, re) ==
    LET n == RunLen(content, position, re.class)
    IN  IF n = 0 THEN None
        ELSE IF re.many THEN Some(n) ELSE Some(1)

\* result of a primitive: st is "ok", "err" (Err(..) returned) or "panic"
\* (slice index out of range); res is the Option<Vec<Node>>, pos the cursor
Prim(st, res, pos) == [st |-> st, res |-> res, pos |-> pos]

Slice(content, from, to) == [i \in 1..(to - from) |-> content[from + i]]

RECURSIVE expect_string_loop(_, _, _, _)
expect_string_loop(content, s, start_pos, position) ==
    IF starts_with(content, position, s)
    THEN Prim("ok",
              Some(<<new_with_position("_String", <<>>, Some(s), start_pos,
                                       position + Len(s))>>),
              position + Len(s))
    ELSE LET ws == RunLen(content, position, HSpace)
         IN  IF ws > 0
             THEN expect_string_loop(content, s, start_pos + ws, start_pos + ws)
             ELSE Prim("ok", None, start_pos)

expect_string(content, position, s) ==
    IF position > Len(content) THEN Prim("panic", None, position)
    ELSE expect_string_loop(content, s, position, position)

RECURSIVE expect_regex_loop(_, _, _, _)
expect_regex_loop(content, re, start_pos, position) ==
    LET m == RegexMatch(content, position, re)
    IN  IF m.some
        THEN Prim("ok",
                  Some(<<new_with_position("_String", <<>>,
                           Some(Slice(content, position, position + m.v)),
                           start_pos, position + m.v)>>),
                  position + m.v)
        ELSE LET ws == RunLen(content, position, HSpace)
             IN  IF ws > 0
                 THEN expect_regex_loop(content, re, start_pos + ws, start_pos + ws)
                 ELSE Prim("ok", None, start_pos)

expect_regex(content, position, re) ==
    IF position > Len(content) THEN Prim("panic", None, position)
    ELSE expect_regex_loop(content, re, position, position)

expect_keyword(content, position, keyword) ==
    IF keyword \notin DOMAIN KEYWORDS THEN Prim("err", None, position)
    ELSE IF position > Len(content) THEN Prim("panic", None, position)
    ELSE LET keyword_value == KEYWORDS[keyword]
         IN  IF starts_with(content, position, keyword_value)
             THEN Prim("ok",
                       Some(<<new_with_position("_String", <<>>,
                                Some(<<keyword>>), position,
                                position + Len(keyword_value))>>),
                       position + Len(keyword_value))
             ELSE Prim("ok", None, position)

\* ---------------------------------------------------------------- GramSpec
\* rules and meta_rules map a rule name to its alternatives; entry_rule is
\* config.entry_rule, the rule function parse() calls
GramSpecConfig_new ==
    [entry_rule |-> <<"f", "i", "l", "e">>, ignore_spaces |-> FALSE,
     ignore_newlines |-> FALSE, ignore_between_tokens |-> <<>>]

GramSpec(rules, meta_rules) ==
    [rules |-> rules, meta_rules |-> meta_rules, discard_rules |-> <<>>,
     config |-> GramSpecConfig_new,
     entry_rule |-> "file"]

get_alternatives(g, rule_name) ==
    IF rule_name \in DOMAIN g.rules THEN Some(g.rules[rule_name])
    ELSE IF rule_name \in DOMAIN g.meta_rules THEN Some(g.meta_rules[rule_name])
    ELSE IF rule_name \in DOMAIN g.discard_rules
    THEN Some(g.discard_rules[rule_name])
    ELSE None

Children(e) ==
    IF e.tag \in {"Or", "And", "DelimitRepeatZero", "DelimitRepeatOne"}
    THEN <<e.a, e.b>>
    ELSE IF e.tag \in {"Optional", "RepeatZero", "RepeatOne", "Discard", "Meta"}
    THEN <<e.a>>
    ELSE <<>>

RECURSIVE is_left_circular_expression(_, _, _, _)
is_left_circular_expression(g, original_rule, e, visited) ==
    CASE e.tag = "Rule" ->
           IF e.s \in visited \/ e.s = original_rule THEN TRUE
           ELSE LET alts == get_alternatives(g, e.s)
                IN  /\ alts.some
                    /\ \E i \in 1..Len(alts.v) :
                         is_left_circular_expression(g, original_rule, alts.v[i],
                                                     visited \cup {e.s})
      [] e.tag \in {"StringLiteral", "RegexLiteral"} -> FALSE
      [] OTHER ->
           \E i \in 1..Len(Children(e)) :
              is_left_circular_expression(g, original_rule, Children(e)[i], visited)

is_left_circular(g, rule_name) ==
    LET alts == get_alternatives(g, rule_name)
    IN  /\ alts.some
        /\ \E i \in 1..Len(alts.v) :
             is_left_circular_expression(g, rule_name, alts.v[i], {})

\* ------------------------------------------------- grammars under analysis
DIGITS == {"0", "1", "2", "3", "4", "5", "6", "7", "8", "9"}

\* S1  file : 'a'+
G_S1 == GramSpec([file |-> <<RepeatOne(StringLiteral(<<"a">>))>>], <<>>)

\* S2  file : digit,(',')+   digit : r'[0-9]'
G_S2 == GramSpec(
    [file |-> <<DelimitRepeatOne(Rule("digit"), StringLiteral(<<",">>))>>,
     digit |-> <<RegexLiteral(DIGITS, FALSE)>>], <<>>)

\* S3  file : sum   sum : sum '+' num | num   num : r'[0-9]+'
G_S3 == GramSpec(
    [file |-> <<Rule("sum")>>,
     sum |-> <<And(And(Rule("sum"), StringLiteral(<<"+">>)), Rule("num")),
               Rule("num")>>,
     num |-> <<RegexLiteral(DIGITS, TRUE)>>], <<>>)

\* S4  file : a | b   a : 'foo'   b : 'foobar'
G_S4 == GramSpec(
    [file |-> <<Rule("a"), Rule("b")>>,
     a |-> <<StringLiteral(<<"f", "o", "o">>)>>,
     b |-> <<StringLiteral(<<"f", "o", "o", "b", "a", "r">>)>>], <<>>)

\* S5  file : ~ws 'x'   ws : r'\s+'
G_S5 == GramSpec(
    [file |-> <<And(Discard(Rule("ws")), StringLiteral(<<"x">>))>>,
     ws |-> <<RegexLiteral({" ", "\t", "\n", "\r"}, TRUE)>>], <<>>)

\* S6  file : number '+' $pair   $number : r'[0-9]+'   pair : number number?
G_S6 == GramSpec(
    [file |-> <<And(And(Rule("number"), StringLiteral(<<"+">>)),
                    Meta(Rule("pair")))>>,
     pair |-> <<And(Rule("number"), Optional(Rule("number")))>>],
    [number |-> <<RegexLiteral(DIGITS, TRUE)>>])

\* file : ('x'?)*  and  file : ('x'?)+
G_RepeatZeroNullable ==
    GramSpec([file |-> <<RepeatZero(Optional(StringLiteral(<<"x">>)))>>], <<>>)
G_RepeatOneNullable ==
    GramSpec([file |-> <<RepeatOne(Optional(StringLiteral(<<"x">>)))>>], <<>>)

\* file : 'a' | 'a' 'c' 'b' | 'a' 'c'? : alternatives that fail after
\* consuming, that tie, and that match
G_Alts == GramSpec(
    [file |-> <<StringLiteral(<<"a">>),
                And(And(StringLiteral(<<"a">>), StringLiteral(<<"c">>)),
                    StringLiteral(<<"b">>)),
                And(StringLiteral(<<"a">>), Optional(StringLiteral(<<"c">>)))>>],
    <<>>)

\* file : a 'c'   a : a 'x' | 'z' ('b' 'q')?
G_Reuse == GramSpec(
    [file |-> <<And(Rule("a"), StringLiteral(<<"c">>))>>,
     a |-> <<And(Rule("a"), StringLiteral(<<"x">>)),
             And(StringLiteral(<<"z">>),
                 Optional(And(StringLiteral(<<"b">>), StringLiteral(<<"q">>))))>>],
    <<>>)

\* mutual left recursion  file : a   a : b 'x' | 'y'   b : a 'z' | 'w'
G_Mutual == GramSpec(
    [file |-> <<Rule("a")>>,
     a |-> <<And(Rule("b"), StringLiteral(<<"x">>)), StringLiteral(<<"y">>)>>,
     b |-> <<And(Rule("a"), StringLiteral(<<"z">>)), StringLiteral(<<"w">>)>>],
    <<>>)

\* left recursion behind a nullable prefix, on the entry rule itself
\* file : 'x'? file 'y' | 'z'
G_Nullable == GramSpec(
    [file |-> <<And(And(Optional(StringLiteral(<<"x">>)), Rule("file")),
                    StringLiteral(<<"y">>)),
                StringLiteral(<<"z">>)>>], <<>>)

\* file : a   a : a 'x' | b | 'z'   b : a 'y'
G_Stale == GramSpec(
    [file |-> <<Rule("a")>>,
     a |-> <<And(Rule("a"), StringLiteral(<<"x">>)), Rule("b"),
             StringLiteral(<<"z">>)>>,
     b |-> <<And(Rule("a"), StringLiteral(<<"y">>))>>], <<>>)

\* file : 'a' nosuch | 'b' NOPE | 'a'* ENDMARKER
G_Errors == GramSpec(
    [file |-> <<And(StringLiteral(<<"a">>), Rule("nosuch")),
                And(StringLiteral(<<"b">>), Keyword("NOPE")),
                And(RepeatZero(StringLiteral(<<"a">>)), Keyword("ENDMARKER"))>>],
    <<>>)

\* a discarded reference to a meta rule that can match nothing
\* file : ~m   $m : 'a'?
G_DiscardMeta == GramSpec(
    [file |-> <<Discard(Rule("m"))>>],
    [m |-> <<Optional(StringLiteral(<<"a">>))>>])

\* a scenario is a grammar with the alphabet and the example texts it is
\* run on
Scenario(g, alphabet, examples) ==
    [gramspec |-> g, alphabet |-> alphabet, examples |-> examples]

NamedScenarios == {
    Scenario(G_S1, {"a", " "}, {<<"a", "a", "a", "a">>}),
    Scenario(G_S2, {"1", ","}, {<<"1", ",", "2", ",", "3">>}),
    Scenario(G_S3, {"1", "+"},
             {<<"1", "+", "2", "2", "+", "3", "3", "3">>,
              <<"1", "+", "2", "+", "3", "+", "4">>}),
    Scenario(G_S4, {"f", "o"},
             {<<"f", "o", "o", "b", "a", "r">>, <<"f", "o", "o", "b">>}),
    Scenario(G_S5, {" ", "x"}, {<<" ", " ", " ", "x">>}),
    Scenario(G_S6, {"1", "+"}, {<<"1", "+", "2", " ", "3">>}),
    Scenario(G_RepeatZeroNullable, {"x", "y"}, {<<"y", "y", "y">>}),
    Scenario(G_RepeatOneNullable, {"x", "y"}, {<<"y", "y", "y">>}),
    Scenario(G_Alts, {"a", "b", "c"}, {}),
    Scenario(G_Reuse, {"z", "b", "c"}, {<<"z", "x", "b", "c">>}),
    Scenario(G_Mutual, {"y", "x", "z"}, {<<"w", "x", "z", "x">>}),
    Scenario(G_Nullable, {"x", "y", "z"}, {<<"x", "z", "y", "y">>}),
    Scenario(G_Stale, {"x", "y", "z"}, {<<"z", "y", "x", "y">>}),
    Scenario(G_Errors, {"a", "b", "0"}, {}),
    Scenario(G_DiscardMeta, {"a", "b"}, {}) }

\* probe grammars: file : e for the expressions e of nesting depth at most
\* two over three primitives, and file : x | y for two-alternative rules
ProbeLeaves == {StringLiteral(<<"a">>), StringLiteral(<<"a", "b">>),
                RegexLiteral({"a", "b"}, TRUE)}
UnaryTags == {"Optional", "RepeatZero", "RepeatOne", "Discard", "Meta"}
BinaryTags == {"Or", "And", "DelimitRepeatZero", "DelimitRepeatOne"}
ProbeDepth1 ==
    {Expr(t, x, NoExpr, <<>>) : t \in UnaryTags, x \in ProbeLeaves}
      \cup {Expr(t, x, y, <<>>) : t \in BinaryTags, x \in ProbeLeaves,
                                  y \in ProbeLeaves}
ProbeOperands ==
    ProbeLeaves
      \cup {And(x, y) : x \in {StringLiteral(<<"a">>), StringLiteral(<<"a", "b">>)},
                        y \in ProbeLeaves}
      \cup {Optional(StringLiteral(<<"a">>))}
ProbeExprs ==
    ProbeLeaves \cup ProbeDepth1
      \cup {Expr(t, Expr(u, x, NoExpr, <<>>), NoExpr, <<>>) :
              t \in UnaryTags, u \in UnaryTags, x \in ProbeLeaves}
      \cup {Expr(t, x, y, <<>>) : t \in {"Or", "And"}, x \in ProbeOperands,
                                  y \in ProbeOperands}
ProbeAlphabet == {"a", "b", " "}
ProbeScenarios ==
    {Scenario(GramSpec([file |-> <<e>>], <<>>), ProbeAlphabet, {}) :
        e \in ProbeExprs}
      \cup {Scenario(GramSpec([file |-> <<x, y>>], <<>>), ProbeAlphabet, {}) :
              x \in ProbeOperands, y \in ProbeOperands}

Scenarios == NamedScenarios \cup ProbeScenarios

\* all texts over `alphabet' of length at most n
Strs(alphabet, n) == UNION {[1..k -> alphabet] : k \in 0..n}

Inputs(sc) == Strs(sc.alphabet, MaxLen) \cup sc.examples

\* ------------------------------------------------------------------- state
VARIABLES
    scenario,   \* the grammar the parser was generated for, with its texts
    content,    \* GramspecParser.content
    position,   \* GramspecParser.position, the cursor
    memos,      \* GramspecParser.memos: <<pos, rule_name>> -> Option<Vec<Node>>
    saved,      \* for each memo entry, the cursor when its result was stored
                \* and the text that was being parsed
    status,     \* "idle" between parse calls, "running" inside one
    ctl,        \* what the evaluator does next
    stack,      \* suspended callers, innermost last
    history,    \* the completed parse calls: input and outcome, in order
    ev,         \* the call that returned in the last step, for the properties
    fe          \* the grammar front end: the GramSpec it builds, its last call

vars == <<scenario, content, position, memos, saved, status, ctl, stack, history, ev,
          fe>>

gramspec == scenario.gramspec

\* the front end before its first call: GramSpec::new and no call made
FE0 == [rules |-> <<>>, meta_rules |-> <<>>, discard_rules |-> <<>>,
        config |-> GramSpecConfig_new, before |-> GramSpecConfig_new,
        call |-> "", kind |-> "", name |-> "", arg |-> <<>>, prev |-> None,
        res |-> "", out |-> NoExpr, expression |-> NoExpr]

\* a suspended caller: op names the call and the point it waits at; the
\* other fields are its locals.  entry is the cursor when the call began;
\* iters counts the passes of its loop; keep is what a reference evaluation
\* puts back when it is over.
F0 == [op |-> "", e |-> NoExpr, name |-> "", entry |-> 0, start |-> 0,
       nodes |-> <<>>, res |-> None, end |-> 0, i |-> 0, iters |-> 0,
       tried |-> <<>>, keep |-> <<>>]

\* ctl.mode: "eval" evaluate ctl.e; "call" call_rule(ctl.name, ctl.protected);
\* "wrap" circular_wrapper(ctl.name); "fn" the rule function of ctl.name;
\* "alts" head of the loop of get_longest_expression_match; "ret" return
\* ctl.res to the caller on top of the stack
C0 == [mode |-> "idle", e |-> NoExpr, name |-> "", protected |-> FALSE,
       res |-> None]
CEval(e) == [C0 EXCEPT !.mode = "eval", !.e = e]
CCall(name, protected) ==
    [C0 EXCEPT !.mode = "call", !.name = name, !.protected = protected]
CWrap(name) == [C0 EXCEPT !.mode = "wrap", !.name = name]
CFn(name) == [C0 EXCEPT !.mode = "fn", !.name = name]
CAlts == [C0 EXCEPT !.mode = "alts"]
CRet(res) == [C0 EXCEPT !.mode = "ret", !.res = res]

Attempt(res, end) == [res |-> res, end |-> end]
NoAttempt == Attempt(None, 0)

\* the record of a returned call: the call (op, name, e), the cursor at its
\* entry, its result, the cursor at its return, and for Or and
\* get_longest_expression_match what each operand or alternative did
NoEv == [op |-> "none", name |-> "", e |-> NoExpr, start |-> 0, res |-> None,
         end |-> 0, left |-> NoAttempt, right |-> NoAttempt, tried |-> <<>>,
         via |-> "", iters |-> 0]
Ev(op, e, start, res, end) ==
    [NoEv EXCEPT !.op = op, !.e = e, !.start = start, !.res = res, !.end = end]

Top == stack[Len(stack)]
Pop == SubSeq(stack, 1, Len(stack) - 1)
Push(f) == Append(stack, f)
Replace(f) == Append(Pop, f)

Running == status = "running"
Evaluating(tag) == Running /\ ctl.mode = "eval" /\ ctl.e.tag = tag
Returning(op) == Running /\ ctl.mode = "ret" /\ Len(stack) > 0 /\ Top.op = op

\* outcome of a parse call: Ok(Some(node)), Ok(None), Err(..) or a panic
Outcome(kind, node) == [kind |-> kind, node |-> node]

\* the parse call ends with outcome o
Finish(o) ==
    /\ status' = "idle"
    /\ history' = Append(history, [input |-> content, outcome |-> o])
    /\ ctl' = C0
    /\ stack' = <<>>

\* an Err propagates through every `?' up to parse
Propagate == Finish(Outcome("error", <<>>))

Panic == Finish(Outcome("panic", <<>>))

Init ==
    /\ scenario \in Scenarios
    /\ content = <<>>
    /\ position = 0
    /\ memos = <<>>
    /\ saved = <<>>
    /\ status = "idle"
    /\ ctl = C0
    /\ stack = <<>>
    /\ history = <<>>
    /\ ev = NoEv
    /\ fe = FE0

\* ------------------------------------------------------------------- parse
parse(input) ==
    /\ status = "idle"
    /\ Len(history) < MaxParses
    \* a used parser whose memo is empty is, once parse has reset the cursor
    \* and the text, in the state of a new one
    /\ history = <<>> \/ memos # <<>>
    /\ position' = 0
    /\ content' = input
    /\ status' = "running"
    /\ stack' = <<[F0 EXCEPT !.op = "parse"]>>
    /\ ctl' = CFn(gramspec.entry_rule)
    /\ ev' = NoEv
    /\ UNCHANGED <<fe, scenario, memos, saved, history>>

parse_return ==
    /\ Returning("parse")
    /\ IF ctl.res.some
       THEN IF Len(ctl.res.v) = 0 THEN Panic
            ELSE Finish(Outcome("node", ctl.res.v[1]))
       ELSE Finish(Outcome("none", <<>>))
    /\ ev' = Ev("parse", NoExpr, 0, ctl.res, position)
    /\ UNCHANGED <<fe, scenario, content, position, memos, saved>>

\* the parse call goes on with control c and stack st
Continue(c, st) ==
    /\ ctl' = c
    /\ stack' = st
    /\ UNCHANGED <<status, history>>

\* -------------------------------------------------------- eval: primitives
Primitive(e, r) ==
    /\ CASE r.st = "err" -> Propagate /\ UNCHANGED position
         [] r.st = "panic" -> Panic /\ UNCHANGED position
         [] OTHER -> Continue(CRet(r.res), stack) /\ position' = r.pos
    /\ ev' = Ev(e.tag, e, position, r.res, r.pos)
    /\ UNCHANGED <<fe, scenario, content, memos, saved>>

eval_StringLiteral ==
    /\ Evaluating("StringLiteral")
    /\ Primitive(ctl.e, expect_string(content, position, ctl.e.s))

eval_RegexLiteral ==
    /\ Evaluating("RegexLiteral")
    /\ Primitive(ctl.e, expect_regex(content, position, ctl.e.s))

eval_Keyword ==
    /\ Evaluating("Keyword")
    /\ Primitive(ctl.e, expect_keyword(content, position, ctl.e.s))

\* ------------------------------------------------------------- eval: Rule
eval_Rule ==
    /\ Evaluating("Rule")
    /\ Continue(CCall(ctl.e.s, TRUE),
                Push([F0 EXCEPT !.op = "Rule", !.e = ctl.e, !.entry = position]))
    /\ ev' = NoEv
    /\ UNCHANGED <<fe, scenario, content, position, memos, saved>>

eval_Rule_return ==
    /\ Returning("Rule")
    /\ Continue(CRet(ctl.res), Pop)
    /\ ev' = Ev("Rule", Top.e, Top.entry, ctl.res, position)
    /\ UNCHANGED <<fe, scenario, content, position, memos, saved>>

\* --------------------------------------------------------------- eval: Or
eval_Or ==
    /\ Evaluating("Or")
    /\ Continue(CEval(ctl.e.a),
                Push([F0 EXCEPT !.op = "Or_left", !.e = ctl.e,
                                !.entry = position, !.start = position]))
    /\ ev' = NoEv
    /\ UNCHANGED <<fe, scenario, content, position, memos, saved>>

\* left operand returned: record left_nodes and left_end, reset the cursor
eval_Or_left ==
    /\ Returning("Or_left")
    /\ position' = Top.start
    /\ Continue(CEval(Top.e.b),
                Replace([Top EXCEPT !.op = "Or_right", !.res = ctl.res,
                                    !.end = position]))
    /\ ev' = NoEv
    /\ UNCHANGED <<fe, scenario, content, memos, saved>>

\* Or as ordered choice: the left operand wins whenever it matched
OrChoice_first(start_pos, left_nodes, left_end, right_nodes, right_end) ==
    IF left_nodes.some THEN Attempt(left_nodes, left_end)
    ELSE IF right_nodes.some THEN Attempt(right_nodes, right_end)
    ELSE Attempt(None, start_pos)

\* Or with >= in its first comparison: on a tie the left operand wins
OrChoice_tieLeft(start_pos, left_nodes, left_end, right_nodes, right_end) ==
    IF left_end >= right_end THEN Attempt(left_nodes, left_end)
    ELSE Attempt(right_nodes, right_end)

\* the choice Or makes between its operands: left_nodes with left_end,
\* right_nodes with right_end
OrChoice(start_pos, left_nodes, left_end, right_nodes, right_end) ==
    IF left_end > right_end THEN Attempt(left_nodes, left_end)
    ELSE IF right_end > left_end THEN Attempt(right_nodes, right_end)
    ELSE Attempt(None, start_pos)

eval_Or_right ==
    /\ Returning("Or_right")
    /\ LET c == OrChoice(Top.start, Top.res, Top.end, ctl.res, position)
       IN  /\ position' = c.end
           /\ Continue(CRet(c.res), Pop)
           /\ ev' = [Ev("Or", Top.e, Top.entry, c.res, c.end) EXCEPT
                       !.left = Attempt(Top.res, Top.end),
                       !.right = Attempt(ctl.res, position)]
    /\ UNCHANGED <<fe, scenario, content, memos, saved>>

\* -------------------------------------------------------------- eval: And
eval_And ==
    /\ Evaluating("And")
    /\ Continue(CEval(ctl.e.a),
                Push([F0 EXCEPT !.op = "And_left", !.e = ctl.e,
                                !.entry = position]))
    /\ ev' = NoEv
    /\ UNCHANGED <<fe, scenario, content, position, memos, saved>>

eval_And_left ==
    /\ Returning("And_left")
    /\ IF ~ctl.res.some
       THEN /\ Continue(CRet(None), Pop)
            /\ ev' = Ev("And", Top.e, Top.entry, None, position)
       ELSE /\ Continue(CEval(Top.e.b),
                        Replace([Top EXCEPT !.op = "And_right", !.res = ctl.res]))
            /\ ev' = NoEv
    /\ UNCHANGED <<fe, scenario, content, position, memos, saved>>

\* the cursor And returns with when its right operand failed: the code
\* returns Ok(None) without touching self.position
AndFailPos(entry, pos) == pos

eval_And_right ==
    /\ Returning("And_right")
    /\ IF ~ctl.res.some
       THEN /\ position' = AndFailPos(Top.entry, position)
            /\ Continue(CRet(None), Pop)
            /\ ev' = Ev("And", Top.e, Top.entry, None,
                        AndFailPos(Top.entry, position))
       ELSE /\ position' = position
            /\ Continue(CRet(Some(Top.res.v \o ctl.res.v)), Pop)
            /\ ev' = Ev("And", Top.e, Top.entry, Some(Top.res.v \o ctl.res.v),
                        position)
    /\ UNCHANGED <<fe, scenario, content, memos, saved>>

\* ----------------------------------------------------------- eval: Optional
eval_Optional ==
    /\ Evaluating("Optional")
    /\ Continue(CEval(ctl.e.a),
                Push([F0 EXCEPT !.op = "Optional", !.e = ctl.e,
                                !.entry = position]))
    /\ ev' = NoEv
    /\ UNCHANGED <<fe, scenario, content, position, memos, saved>>

eval_Optional_return ==
    /\ Returning("Optional")
    /\ LET nodes == IF ctl.res.some THEN ctl.res ELSE Some(<<>>)
       IN  /\ Continue(CRet(nodes), Pop)
           /\ ev' = [Ev("Optional", Top.e, Top.entry, nodes, position) EXCEPT
                       !.left = Attempt(ctl.res, position)]
    /\ UNCHANGED <<fe, scenario, content, position, memos, saved>>

\* ------------------------------------------------------------ eval: Discard
eval_Discard ==
    /\ Evaluating("Discard")
    /\ Continue(CEval(ctl.e.a),
                Push([F0 EXCEPT !.op = "Discard", !.e = ctl.e,
                                !.entry = position]))
    /\ ev' = NoEv
    /\ UNCHANGED <<fe, scenario, content, position, memos, saved>>

\* nodes[nodes.len() - 1] panics on an empty vector
eval_Discard_return ==
    /\ Returning("Discard")
    /\ IF ~ctl.res.some
       THEN /\ Continue(CRet(None), Pop)
            /\ ev' = Ev("Discard", Top.e, Top.entry, None, position)
       ELSE IF Len(ctl.res.v) = 0
       THEN /\ Panic
            /\ ev' = [Ev("Discard", Top.e, Top.entry, None, position) EXCEPT
                        !.via = "panic", !.left = Attempt(ctl.res, position)]
       ELSE LET last_node == ctl.res.v[Len(ctl.res.v)]
                node == new_with_position("_Discard", <<>>, None, position,
                                          get_end_pos(last_node))
            IN  /\ Continue(CRet(Some(<<node>>)), Pop)
                /\ ev' = [Ev("Discard", Top.e, Top.entry, Some(<<node>>), position)
                            EXCEPT !.left = Attempt(ctl.res, position)]
    /\ UNCHANGED <<fe, scenario, content, position, memos, saved>>

\* --------------------------------------------------------------- eval: Meta
eval_Meta ==
    /\ Evaluating("Meta")
    /\ Continue(CEval(ctl.e.a),
                Push([F0 EXCEPT !.op = "Meta", !.e = ctl.e, !.entry = position]))
    /\ ev' = NoEv
    /\ UNCHANGED <<fe, scenario, content, position, memos, saved>>

\* nodes.unwrap()[0] panics on an empty vector
eval_Meta_return ==
    /\ Returning("Meta")
    /\ IF ~ctl.res.some
       THEN /\ Continue(CRet(None), Pop)
            /\ ev' = Ev("Meta", Top.e, Top.entry, None, position)
       ELSE IF Len(ctl.res.v) = 0
       THEN /\ Panic
            /\ ev' = [Ev("Meta", Top.e, Top.entry, None, position) EXCEPT
                        !.via = "panic"]
       ELSE /\ Continue(CRet(Some(ctl.res.v[1].children)), Pop)
            /\ ev' = Ev("Meta", Top.e, Top.entry, Some(ctl.res.v[1].children),
                        position)
    /\ UNCHANGED <<fe, scenario, content, position, memos, saved>>

\* ------------------------------------------- eval: RepeatOne and RepeatZero
eval_Repeat ==
    /\ Running /\ ctl.mode = "eval" /\ ctl.e.tag \in {"RepeatOne", "RepeatZero"}
    /\ Continue(CEval(ctl.e.a),
                Push([F0 EXCEPT !.op = "Repeat_first", !.e = ctl.e,
                                !.entry = position]))
    /\ ev' = NoEv
    /\ UNCHANGED <<fe, scenario, content, position, memos, saved>>

\* the first evaluation returned
eval_Repeat_first ==
    /\ Returning("Repeat_first")
    /\ IF ~ctl.res.some
       THEN LET out == IF Top.e.tag = "RepeatOne" THEN None ELSE Some(<<>>)
            IN  /\ Continue(CRet(out), Pop)
                /\ ev' = [Ev(Top.e.tag, Top.e, Top.entry, out, position) EXCEPT
                            !.iters = 1]
       ELSE /\ Continue(CEval(Top.e.a),
                        Replace([Top EXCEPT !.op = "Repeat_loop", !.res = ctl.res,
                                            !.end = position, !.iters = 2]))
            /\ ev' = NoEv
    /\ UNCHANGED <<fe, scenario, content, position, memos, saved>>

\* a repetition without the progress guard
RepeatGuard_never(pos, last_pos) == FALSE

\* the progress guard: if self.position == last_pos { break; }
RepeatGuard(pos, last_pos) == pos = last_pos

\* an evaluation inside the while loop returned
eval_Repeat_loop ==
    /\ Returning("Repeat_loop")
    /\ IF ~ctl.res.some
       THEN /\ Continue(CRet(Top.res), Pop)
            /\ ev' = [Ev(Top.e.tag, Top.e, Top.entry, Top.res, position) EXCEPT
                        !.iters = Top.iters]
       ELSE LET nodes == Some(Top.res.v \o ctl.res.v)
            IN  IF RepeatGuard(position, Top.end)
                THEN /\ Continue(CRet(nodes), Pop)
                     /\ ev' = [Ev(Top.e.tag, Top.e, Top.entry, nodes, position)
                                 EXCEPT !.iters = Top.iters]
                ELSE /\ Continue(CEval(Top.e.a),
                                 Replace([Top EXCEPT !.res = nodes,
                                                     !.end = position,
                                                     !.iters = @ + 1]))
                     /\ ev' = NoEv
    /\ UNCHANGED <<fe, scenario, content, position, memos, saved>>

\* ----------------------------- eval: DelimitRepeatOne and DelimitRepeatZero
eval_DelimitRepeat ==
    /\ Running /\ ctl.mode = "eval"
    /\ ctl.e.tag \in {"DelimitRepeatOne", "DelimitRepeatZero"}
    /\ Continue(CEval(ctl.e.a),
                Push([F0 EXCEPT !.op = "Delimit_first", !.e = ctl.e,
                                !.entry = position]))
    /\ ev' = NoEv
    /\ UNCHANGED <<fe, scenario, content, position, memos, saved>>

\* the first expression returned; on success the loop starts: start is the
\* cursor, the delimiter is evaluated
eval_DelimitRepeat_first ==
    /\ Returning("Delimit_first")
    /\ IF ~ctl.res.some
       THEN LET out == IF Top.e.tag = "DelimitRepeatOne" THEN None
                       ELSE Some(<<>>)
            IN  /\ Continue(CRet(out), Pop)
                /\ ev' = Ev(Top.e.tag, Top.e, Top.entry, out, position)
       ELSE /\ Continue(CEval(Top.e.b),
                        Replace([Top EXCEPT !.op = "Delimit_delimiter",
                                            !.nodes = ctl.res.v,
                                            !.start = position, !.iters = 1]))
            /\ ev' = NoEv
    /\ UNCHANGED <<fe, scenario, content, position, memos, saved>>

\* the delimiter returned
eval_DelimitRepeat_delimiter ==
    /\ Returning("Delimit_delimiter")
    /\ IF ~ctl.res.some
       THEN /\ position' = Top.start
            /\ Continue(CRet(Some(Top.nodes)), Pop)
            /\ ev' = [Ev(Top.e.tag, Top.e, Top.entry, Some(Top.nodes), Top.start)
                        EXCEPT !.iters = Top.iters]
       ELSE /\ position' = position
            /\ Continue(CEval(Top.e.a),
                        Replace([Top EXCEPT !.op = "Delimit_expression",
                                            !.res = ctl.res]))
            /\ ev' = NoEv
    /\ UNCHANGED <<fe, scenario, content, memos, saved>>

\* a loop that leaves the cursor where the failed expression left it
DelimitRestore_stay(start, pos) == pos

\* the cursor after an iteration whose expression failed: self.position =
\* start
DelimitRestore(start, pos) == start

\* the expression after a delimiter returned
eval_DelimitRepeat_expression ==
    /\ Returning("Delimit_expression")
    /\ IF ~ctl.res.some
       THEN /\ position' = DelimitRestore(Top.start, position)
            /\ Continue(CRet(Some(Top.nodes)), Pop)
            /\ ev' = [Ev(Top.e.tag, Top.e, Top.entry, Some(Top.nodes),
                         DelimitRestore(Top.start, position))
                        EXCEPT !.iters = Top.iters, !.via = "dangling",
                               !.left = Attempt(Top.res, Top.start)]
       ELSE LET nodes == Top.nodes \o Top.res.v \o ctl.res.v
            IN  /\ position' = position
                /\ IF position <= Top.start
                   THEN /\ Continue(CRet(Some(nodes)), Pop)
                        /\ ev' = [Ev(Top.e.tag, Top.e, Top.entry, Some(nodes),
                                     position) EXCEPT !.iters = Top.iters]
                   ELSE /\ Continue(CEval(Top.e.b),
                                    Replace([Top EXCEPT !.op = "Delimit_delimiter",
                                                        !.nodes = nodes,
                                                        !.start = position,
                                                        !.iters = @ + 1]))
                        /\ ev' = NoEv
    /\ UNCHANGED <<fe, scenario, content, memos, saved>>

\* ---------------------------------------------------------------- call_rule
\* a dispatcher that answers an unknown name with no match
call_rule_unknownFails ==
    /\ Running /\ ctl.mode = "call"
    /\ IF ~get_alternatives(gramspec, ctl.name).some
       THEN Continue(CRet(None), stack)
       ELSE IF is_left_circular(gramspec, ctl.name) /\ ctl.protected
       THEN Continue(CWrap(ctl.name), stack)
       ELSE Continue(CFn(ctl.name), stack)
    /\ ev' = NoEv
    /\ UNCHANGED <<fe, scenario, content, position, memos, saved>>

\* the dispatcher generated for the grammar: unknown names are an error, a
\* left-circular rule called with protected goes through circular_wrapper,
\* every other call runs the rule function
call_rule ==
    /\ Running /\ ctl.mode = "call"
    /\ IF ~get_alternatives(gramspec, ctl.name).some
       THEN Propagate
       ELSE IF is_left_circular(gramspec, ctl.name) /\ ctl.protected
       THEN Continue(CWrap(ctl.name), stack)
       ELSE Continue(CFn(ctl.name), stack)
    /\ ev' = NoEv
    /\ UNCHANGED <<fe, scenario, content, position, memos, saved>>

\* --------------------------------------------------------- circular_wrapper
MemoInsert(m, k, v) == [x \in DOMAIN m \cup {k} |-> IF x = k THEN v ELSE m[x]]
MemoRemove(m, k) == [x \in DOMAIN m \ {k} |-> m[x]]

\* what is remembered of a store into the memo
Stored(end, input) == [end |-> end, input |-> input]

\* a memo hit that returns the cached nodes without moving the cursor
HitEndPos_stay(cached_result, pos) == pos

\* the cursor a memo hit moves to: the greatest get_end_pos of the cached
\* nodes, pos when there is none
HitEndPos(cached_result, pos) ==
    IF cached_result.some /\ MaxEndPos(cached_result.v).some
    THEN MaxEndPos(cached_result.v).v
    ELSE pos

\* entry of the wrapper: a memo hit returns at once, a miss seeds the memo
\* with None and starts the growth loop
circular_wrapper ==
    /\ Running /\ ctl.mode = "wrap"
    /\ LET pos == position
           key == <<pos, ctl.name>>
       IN  IF key \in DOMAIN memos
           THEN /\ position' = HitEndPos(memos[key], pos)
                /\ memos' = memos
                /\ saved' = saved
                /\ Continue(CRet(memos[key]), stack)
                /\ ev' = [Ev("circular_wrapper", NoExpr, pos, memos[key],
                             HitEndPos(memos[key], pos))
                            EXCEPT !.name = ctl.name, !.via = "hit"]
           ELSE /\ memos' = MemoInsert(memos, key, None)
                /\ saved' = MemoInsert(saved, key, Stored(pos, content))
                /\ position' = pos
                /\ Continue(CCall(ctl.name, FALSE),
                            Push([F0 EXCEPT !.op = "circular_wrapper",
                                            !.name = ctl.name, !.entry = pos,
                                            !.start = pos, !.res = None,
                                            !.end = pos, !.iters = 1]))
                /\ ev' = NoEv
    /\ UNCHANGED <<fe, scenario, content>>

\* the growth loop continues only when the end cursor grew
GrowthStops(end_pos, last_pos) == end_pos <= last_pos

\* a wrapper that leaves a failure in the memo
Evict_never(m, key, last_result) == m

\* after the loop: a failure is removed from the memo
Evict(m, key, last_result) ==
    IF ~last_result.some THEN MemoRemove(m, key) ELSE m

\* call_rule(rule_name, false) returned inside the growth loop
circular_wrapper_loop ==
    /\ Returning("circular_wrapper")
    /\ LET key == <<Top.start, Top.name>>
           end_pos == position
       IN  IF GrowthStops(end_pos, Top.end)
           THEN /\ memos' = Evict(memos, key, Top.res)
                /\ saved' = Evict(saved, key, Top.res)
                /\ position' = Top.end
                /\ Continue(CRet(Top.res), Pop)
                /\ ev' = [Ev("circular_wrapper", NoExpr, Top.start, Top.res,
                             Top.end)
                            EXCEPT !.name = Top.name, !.via = "grow",
                                   !.iters = Top.iters]
           ELSE /\ memos' = MemoInsert(memos, key, ctl.res)
                /\ saved' = MemoInsert(saved, key, Stored(end_pos, content))
                /\ position' = Top.start
                /\ Continue(CCall(Top.name, FALSE),
                            Replace([Top EXCEPT !.res = ctl.res, !.end = end_pos,
                                                !.iters = @ + 1]))
                /\ ev' = NoEv
    /\ UNCHANGED <<fe, scenario, content>>

\* ------------------------------- rule functions, get_longest_expression_match
\* the rule function of ctl.name starts: start_pos is the cursor and
\* get_longest_expression_match begins with longest_end = start_pos,
\* longest_nodes = None
rule_function ==
    /\ Running /\ ctl.mode = "fn"
    /\ Continue(CAlts,
                stack \o <<[F0 EXCEPT !.op = "rule_fn", !.name = ctl.name,
                                      !.entry = position, !.start = position],
                           [F0 EXCEPT !.op = "longest", !.name = ctl.name,
                                      !.entry = position, !.start = position,
                                      !.end = position, !.res = None, !.i = 1]>>)
    /\ ev' = NoEv
    /\ UNCHANGED <<fe, scenario, content, position, memos, saved>>

Alternatives(name) == get_alternatives(gramspec, name).v

\* a loop exit that moves the cursor to longest_end whatever the result
LongestEnd_always(start_pos, longest_end, longest_nodes) == longest_end

\* the cursor get_longest_expression_match returns with: start_pos when no
\* alternative matched, longest_end otherwise
LongestEnd(start_pos, longest_end, longest_nodes) ==
    IF longest_nodes.some THEN longest_end ELSE start_pos

\* head of the for loop: evaluate the next alternative, or leave the loop
get_longest_expression_match ==
    /\ Running /\ ctl.mode = "alts" /\ Top.op = "longest"
    /\ IF Top.i <= Len(Alternatives(Top.name))
       THEN /\ Continue(CEval(Alternatives(Top.name)[Top.i]), stack)
            /\ position' = position
            /\ ev' = NoEv
       ELSE LET end == LongestEnd(Top.start, Top.end, Top.res)
            IN  /\ Continue(CRet(Top.res), Pop)
                /\ position' = end
                /\ ev' = [Ev("longest", NoExpr, Top.start, Top.res, end) EXCEPT
                            !.name = Top.name, !.tried = Top.tried]
    /\ UNCHANGED <<fe, scenario, content, memos, saved>>

\* the comparison with >= : the last of the tied alternatives is kept
Longer_orEqual(new_end_pos, longest_end, longest_nodes) ==
    new_end_pos >= longest_end \/ ~longest_nodes.some

\* whether the alternative just tried replaces the best so far
Longer(new_end_pos, longest_end, longest_nodes) ==
    new_end_pos > longest_end \/ ~longest_nodes.some

\* an alternative returned: reset the cursor, keep the result if longer
get_longest_expression_match_body ==
    /\ Returning("longest")
    /\ LET new_end_pos == position
           take == Longer(new_end_pos, Top.end, Top.res)
       IN  /\ position' = Top.start
           /\ Continue(CAlts,
                       Replace([Top EXCEPT
                                  !.end = IF take THEN new_end_pos ELSE @,
                                  !.res = IF take THEN ctl.res ELSE @,
                                  !.i = @ + 1,
                                  !.tried = Append(@, Attempt(ctl.res,
                                                              new_end_pos))]))
    /\ ev' = NoEv
    /\ UNCHANGED <<fe, scenario, content, memos, saved>>

\* get_longest_expression_match returned to the rule function: an ordinary
\* rule wraps the matches in one node of its name, a meta rule returns them
rule_function_return ==
    /\ Returning("rule_fn")
    /\ LET out == IF Top.name \in DOMAIN gramspec.rules /\ ctl.res.some
                  THEN Some(<<new_with_position(Top.name, ctl.res.v, None,
                                                Top.start, position)>>)
                  ELSE ctl.res
       IN  /\ Continue(CRet(out), Pop)
           /\ ev' = [Ev("rule_fn", NoExpr, Top.start, out, position) EXCEPT
                       !.name = Top.name]
    /\ UNCHANGED <<fe, scenario, content, position, memos, saved>>

\* --------------------------------------------------------------------- Next
\* the texts a parse call is given: any text of the scenario on a fresh
\* parser, the previous text again or an example text on a used one
ParseInputs ==
    IF history = <<>> THEN Inputs(scenario)
    ELSE {content} \cup scenario.examples

Step ==
    \/ parse_return
    \/ eval_StringLiteral \/ eval_RegexLiteral \/ eval_Keyword
    \/ eval_Rule \/ eval_Rule_return
    \/ eval_Or \/ eval_Or_left \/ eval_Or_right
    \/ eval_And \/ eval_And_left \/ eval_And_right
    \/ eval_Optional \/ eval_Optional_return
    \/ eval_Discard \/ eval_Discard_return
    \/ eval_Meta \/ eval_Meta_return
    \/ eval_Repeat \/ eval_Repeat_first \/ eval_Repeat_loop
    \/ eval_DelimitRepeat \/ eval_DelimitRepeat_first
    \/ eval_DelimitRepeat_delimiter \/ eval_DelimitRepeat_expression
    \/ call_rule
    \/ circular_wrapper \/ circular_wrapper_loop
    \/ rule_function \/ rule_function_return
    \/ get_longest_expression_match \/ get_longest_expression_match_body

Next ==
    \/ \E input \in ParseInputs : parse(input)
    \/ Step

Spec == Init /\ [][Next]_vars

\* --------------------------------------------- the reference evaluation
\* the wrapper of (pos, name) is inside its growth loop
InProgress(pos, name) ==
    \E i \in 1..Len(stack) :
        /\ stack[i].op = "circular_wrapper"
        /\ stack[i].start = pos /\ stack[i].name = name

\* a reference evaluation is going on
Referring == \E i \in 1..Len(stack) : stack[i].op = "fresh"

\* after a memo hit for (pos, name) outside the growth loop of that key: the
\* parser is set aside, and rule name is called at pos of the same text by a
\* parser whose memo is empty, as GramspecParser::new makes it
fresh_evaluation ==
    /\ Running /\ ctl.mode = "ret"
    /\ ev.op = "circular_wrapper" /\ ev.via = "hit"
    /\ ~InProgress(ev.start, ev.name)
    /\ ~Referring
    /\ memos' = <<>>
    /\ saved' = <<>>
    /\ position' = ev.start
    /\ Continue(CCall(ev.name, TRUE),
                Push([F0 EXCEPT !.op = "fresh", !.name = ev.name,
                                !.entry = ev.start, !.start = ev.start,
                                !.res = ev.res, !.end = ev.end,
                                !.keep = [memos |-> memos, saved |-> saved]]))
    /\ ev' = NoEv
    /\ UNCHANGED <<fe, scenario, content>>

\* the reference evaluation returned: its result and cursor are recorded next
\* to those of the hit (left), and the parser set aside goes on
fresh_return ==
    /\ Returning("fresh")
    /\ memos' = Top.keep.memos
    /\ saved' = Top.keep.saved
    /\ position' = Top.end
    /\ Continue(CRet(Top.res), Pop)
    /\ ev' = [Ev("fresh", NoExpr, Top.start, ctl.res, position)
                EXCEPT !.name = Top.name, !.left = Attempt(Top.res, Top.end)]
    /\ UNCHANGED <<fe, scenario, content>>

FreshNext == Next \/ fresh_evaluation \/ fresh_return

FreshSpec == Init /\ [][FreshNext]_vars

\* ------------------------------------------------ the grammar front end
\* the engine's variables, which no call of the front end touches
engine == <<scenario, content, position, memos, saved, status, ctl, stack, history, ev>>

\* the engine while the front end runs: a parser not yet used
EngineAtRest ==
    /\ scenario = Scenario(G_S1, {"a", " "}, {})
    /\ content = <<>>
    /\ position = 0
    /\ memos = <<>>
    /\ saved = <<>>
    /\ status = "idle"
    /\ ctl = C0
    /\ stack = <<>>
    /\ history = <<>>
    /\ ev = NoEv

\* the front end of a generator run: a new GramSpec, the engine at rest
FrontInit == EngineAtRest /\ fe = FE0

\* ---- GramSpecConfig
\* the options GramSpecConfig::set knows
ConfigOptions ==
    {"entry_rule", "ignore_spaces", "ignore_newlines", "ignore_between_tokens"}

\* the option names a directive can carry: the four options and two others
DirectiveNames == ConfigOptions \cup {"ignore_space", "entry"}

\* the directive values applied, as texts
RawValues == {
    <<"t", "r", "u", "e">>,
    <<"f", "a", "l", "s", "e">>,
    <<"T", "r", "u", "e">>,
    <<" ", "t", "r", "u", "e">>,
    <<"m", "a", "i", "n">>,
    <<" ", "a", ",", "b", " ">>,
    <<>> }

\* str::parse::<bool>: exactly the texts true and false
parse_bool(value) ==
    IF value = <<"t", "r", "u", "e">> THEN [ok |-> TRUE, v |-> TRUE]
    ELSE IF value = <<"f", "a", "l", "s", "e">> THEN [ok |-> TRUE, v |-> FALSE]
    ELSE [ok |-> FALSE, v |-> FALSE]

\* str::split(','): the pieces between the commas, at least one
RECURSIVE split(_, _)
split(value, piece) ==
    IF Len(value) = 0 THEN <<piece>>
    ELSE IF Head(value) = "," THEN <<piece>> \o split(Tail(value), <<>>)
    ELSE split(Tail(value), Append(piece, Head(value)))

WhiteSpace == {" ", "\t", "\n", "\r"}

RECURSIVE trim_start(_)
trim_start(t) ==
    IF Len(t) > 0 /\ Head(t) \in WhiteSpace THEN trim_start(Tail(t)) ELSE t

RECURSIVE trim_end(_)
trim_end(t) ==
    IF Len(t) > 0 /\ t[Len(t)] \in WhiteSpace
    THEN trim_end(SubSeq(t, 1, Len(t) - 1)) ELSE t

\* str::trim
trim(t) == trim_end(trim_start(t))

\* a setter that takes every name and reads every text but true as false
set_lenient(self, config, value) ==
    CASE config = "entry_rule" ->
           [ok |-> TRUE, self |-> [self EXCEPT !.entry_rule = value]]
      [] config = "ignore_newlines" ->
           [ok |-> TRUE,
            self |-> [self EXCEPT !.ignore_newlines = parse_bool(value).v]]
      [] config = "ignore_between_tokens" ->
           [ok |-> TRUE,
            self |-> [self EXCEPT !.ignore_between_tokens =
                        [i \in DOMAIN split(value, <<>>) |->
                            trim(split(value, <<>>)[i])]]]
      [] OTHER ->
           [ok |-> TRUE,
            self |-> [self EXCEPT !.ignore_spaces = parse_bool(value).v]]

\* GramSpecConfig::set(&mut self, config, value): the result and the
\* configuration after the call
set(self, config, value) ==
    CASE config = "entry_rule" ->
           [ok |-> TRUE, self |-> [self EXCEPT !.entry_rule = value]]
      [] config = "ignore_spaces" ->
           IF parse_bool(value).ok
           THEN [ok |-> TRUE,
                 self |-> [self EXCEPT !.ignore_spaces = parse_bool(value).v]]
           ELSE [ok |-> FALSE, self |-> self]
      [] config = "ignore_newlines" ->
           IF parse_bool(value).ok
           THEN [ok |-> TRUE,
                 self |-> [self EXCEPT !.ignore_newlines = parse_bool(value).v]]
           ELSE [ok |-> FALSE, self |-> self]
      [] config = "ignore_between_tokens" ->
           [ok |-> TRUE,
            self |-> [self EXCEPT !.ignore_between_tokens =
                        [i \in DOMAIN split(value, <<>>) |->
                            trim(split(value, <<>>)[i])]]]
      [] OTHER -> [ok |-> FALSE, self |-> self]

\* one config directive applied to the configuration being built
config_set(config, value) ==
    /\ fe' = [fe EXCEPT !.config = set(fe.config, config, value).self,
                        !.before = fe.config,
                        !.call = "set", !.name = config, !.arg = value,
                        !.res = IF set(fe.config, config, value).ok
                                THEN "ok" ELSE "error"]
    /\ UNCHANGED engine

ConfigNext ==
    \E config \in DirectiveNames, value \in RawValues : config_set(config, value)

ConfigSpec == FrontInit /\ [][ConfigNext]_vars

\* ---- GramSpec: registration of the definitions and the left-recursion test
\* the rule names and the definitions a grammar file under analysis holds:
\*   n : a 'x'      n : b 'x'      n : 'x'
FrontNames == {"a", "b"}

FrontAlternatives == {
    <<And(Rule("a"), StringLiteral(<<"x">>))>>,
    <<And(Rule("b"), StringLiteral(<<"x">>))>>,
    <<StringLiteral(<<"x">>)>> }

DefinitionKinds ==
    {"RuleDefinition", "MetaRuleDefinition", "DiscardRuleDefinition"}

\* HashMap::insert: the value of an existing key is replaced
insert(map, key, value) ==
    [k \in DOMAIN map \cup {key} |-> IF k = key THEN value ELSE map[k]]

\* the GramSpec held by the front end
FrontGramSpec ==
    [rules |-> fe.rules, meta_rules |-> fe.meta_rules,
     discard_rules |-> fe.discard_rules, config |-> fe.config,
     entry_rule |-> "file"]

\* GramSpec::from, one pass of its loop: the definition is inserted into the
\* map of its kind
register(kind, rule_name, alternatives) ==
    /\ fe' = [fe EXCEPT
                !.rules = IF kind = "RuleDefinition"
                          THEN insert(@, rule_name, alternatives) ELSE @,
                !.meta_rules = IF kind = "MetaRuleDefinition"
                               THEN insert(@, rule_name, alternatives) ELSE @,
                !.discard_rules = IF kind = "DiscardRuleDefinition"
                                  THEN insert(@, rule_name, alternatives) ELSE @,
                !.call = "register", !.kind = kind, !.name = rule_name,
                !.arg = alternatives,
                !.prev = get_alternatives(FrontGramSpec, rule_name),
                !.res = "ok", !.out = NoExpr]
    /\ UNCHANGED engine

\* GramSpec::get_expression of the generator's GramSpec: rules, then
\* meta_rules
get_expression(g, rule_name) ==
    IF rule_name \in DOMAIN g.rules THEN Some(g.rules[rule_name])
    ELSE IF rule_name \in DOMAIN g.meta_rules
    THEN Some(g.meta_rules[rule_name])
    ELSE None

\* the left-recursion test of the generator's GramSpec: it follows the left
\* spine, and a name met again on the path answers whether it is the
\* original rule
RECURSIVE generator_is_left_circular_expression(_, _, _, _)
generator_is_left_circular_expression(g, original_rule, e, visited) ==
    CASE e.tag = "Rule" ->
           IF e.s \in visited THEN e.s = original_rule
           ELSE LET alts == get_expression(g, e.s)
                IN  /\ alts.some
                    /\ \E i \in 1..Len(alts.v) :
                         generator_is_left_circular_expression(
                             g, original_rule, alts.v[i], visited \cup {e.s})
      [] e.tag \in {"StringLiteral", "RegexLiteral", "Keyword"} -> FALSE
      [] e.tag = "Or" ->
           \/ generator_is_left_circular_expression(g, original_rule, e.a, visited)
           \/ generator_is_left_circular_expression(g, original_rule, e.b, visited)
      [] e.tag \in {"And", "Optional", "RepeatZero", "RepeatOne",
                    "DelimitRepeatZero", "DelimitRepeatOne"} ->
           generator_is_left_circular_expression(g, original_rule, e.a, visited)
      [] OTHER -> FALSE

generator_is_left_circular(g, rule_name) ==
    LET alts == get_expression(g, rule_name)
    IN  /\ alts.some
        /\ \E i \in 1..Len(alts.v) :
             generator_is_left_circular_expression(g, rule_name, alts.v[i], {})

\* generate_call_rule, one pass of its loop: the dispatcher entry of a rule
\* goes through circular_wrapper exactly when the rule tests left-circular.
\* The answer of the engine's own GramSpec is recorded next to it.
generate_call_rule(rule) ==
    /\ get_alternatives(FrontGramSpec, rule).some
    /\ fe' = [fe EXCEPT
                !.call = "is_left_circular", !.kind = "", !.name = rule,
                !.arg = <<>>, !.prev = None,
                !.res = IF generator_is_left_circular(FrontGramSpec, rule)
                        THEN "circular_wrapper" ELSE "direct",
                !.out = [generator |->
                            generator_is_left_circular(FrontGramSpec, rule),
                         gramspec |-> is_left_circular(FrontGramSpec, rule)]]
    /\ UNCHANGED engine

BuildNext ==
    \/ \E kind \in DefinitionKinds, rule_name \in FrontNames,
          alternatives \in FrontAlternatives :
            register(kind, rule_name, alternatives)
    \/ \E rule \in FrontNames : generate_call_rule(rule)

BuildSpec == FrontInit /\ [][BuildNext]_vars

\* ---- Parser::to_expression: from the tokens of a rule body to an Expression
Token(token_type, value) == [token_type |-> token_type, value |-> value]

\* the tokens the bodies under analysis are written with
BodyTokens == {
    Token("RuleName", "a"), Token("StringLiteral", "x"),
    Token("DelimitRepeat", ","), Token("RepeatOne", "+"),
    Token("RepeatZero", "*"), Token("Optional", "?"), Token("Or", "|"),
    Token("OpenParen", "("), Token("CloseParen", ")") }

\* bodies with three different operands:
\*   a b | c      a | b c      a b+      a , b+ c
ExampleBodies == {
    <<Token("RuleName", "a"), Token("RuleName", "b"), Token("Or", "|"),
      Token("RuleName", "c")>>,
    <<Token("RuleName", "a"), Token("Or", "|"), Token("RuleName", "b"),
      Token("RuleName", "c")>>,
    <<Token("RuleName", "a"), Token("RuleName", "b"), Token("RepeatOne", "+")>>,
    <<Token("RuleName", "a"), Token("DelimitRepeat", ","),
      Token("RuleName", "b"), Token("RepeatOne", "+"), Token("RuleName", "c")>> }

Bodies == UNION {[1..k -> BodyTokens] : k \in 0..MaxBody} \cup ExampleBodies

is_operator(token_type) ==
    token_type \in {"Or", "And", "DelimitRepeat", "RepeatOne", "RepeatZero",
                    "Optional"}

is_unary_operator(token_type) ==
    token_type \in {"Optional", "RepeatOne", "RepeatZero"}

\* a precedence table in which Or binds tighter than And
get_precedence_orFirst(token_type) ==
    CASE token_type = "DelimitRepeat" -> 5
      [] token_type = "RepeatOne" -> 4
      [] token_type = "RepeatZero" -> 4
      [] token_type = "Optional" -> 3
      [] token_type = "And" -> 1
      [] token_type = "Or" -> 2
      [] OTHER -> 0

get_precedence(token_type) ==
    CASE token_type = "DelimitRepeat" -> 5
      [] token_type = "RepeatOne" -> 4
      [] token_type = "RepeatZero" -> 4
      [] token_type = "Optional" -> 3
      [] token_type = "And" -> 2
      [] token_type = "Or" -> 1
      [] OTHER -> 0

\* the result of a front-end function: st is "ok", "err" (an Err value) or
\* "panic"
Fr(st, v) == [st |-> st, v |-> v]

\* add_implict_ands: an And token after every token that is followed by the
\* start of an operand.  An empty body makes tokens.len() - 1 underflow.
RECURSIVE add_implict_ands_loop(_, _)
add_implict_ands_loop(tokens, i) ==
    IF i > Len(tokens) - 1 THEN <<tokens[Len(tokens)]>>
    ELSE LET token == tokens[i]
             next_token == tokens[i + 1]
             skip == \/ token.token_type \in {"OpenParen", "DelimitRepeat", "Or"}
                     \/ next_token.token_type = "CloseParen"
                     \/ is_operator(next_token.token_type)
         IN  <<token>> \o (IF skip THEN <<>> ELSE <<Token("And", "&")>>)
                 \o add_implict_ands_loop(tokens, i + 1)

add_implict_ands(tokens) ==
    IF Len(tokens) = 0 THEN Fr("panic", <<>>)
    ELSE Fr("ok", add_implict_ands_loop(tokens, 1))

\* the operators on top of the operator stack whose precedence is at least that of
\* token move to postfix
RECURSIVE pop_operators(_, _, _)
pop_operators(postfix, ops, token) ==
    IF /\ Len(ops) > 0
       /\ is_operator(ops[Len(ops)].token_type)
       /\ get_precedence(ops[Len(ops)].token_type)
              >= get_precedence(token.token_type)
    THEN pop_operators(Append(postfix, ops[Len(ops)]),
                       SubSeq(ops, 1, Len(ops) - 1), token)
    ELSE [postfix |-> postfix, ops |-> ops]

\* the operator stack ops is popped into postfix down to and including the nearest
\* OpenParen, or until it is empty
RECURSIVE pop_to_paren(_, _)
pop_to_paren(postfix, ops) ==
    IF Len(ops) = 0 THEN [postfix |-> postfix, ops |-> ops]
    ELSE IF ops[Len(ops)].token_type = "OpenParen"
    THEN [postfix |-> postfix, ops |-> SubSeq(ops, 1, Len(ops) - 1)]
    ELSE pop_to_paren(Append(postfix, ops[Len(ops)]),
                      SubSeq(ops, 1, Len(ops) - 1))

\* the first loop of to_expression: infix to postfix
RECURSIVE to_postfix(_, _, _, _)
to_postfix(tokens, i, postfix, ops) ==
    IF i > Len(tokens) THEN [postfix |-> postfix, ops |-> ops]
    ELSE LET token == tokens[i]
             ty == token.token_type
         IN  IF is_unary_operator(ty)
             THEN IF /\ Len(ops) > 0
                     /\ ops[Len(ops)].token_type = "DelimitRepeat"
                     /\ ty \in {"RepeatOne", "RepeatZero"}
                  THEN to_postfix(tokens, i + 1,
                                  postfix \o <<ops[Len(ops)], token>>,
                                  SubSeq(ops, 1, Len(ops) - 1))
                  ELSE to_postfix(tokens, i + 1, Append(postfix, token), ops)
             ELSE IF is_operator(ty)
             THEN LET p == pop_operators(postfix, ops, token)
                  IN  to_postfix(tokens, i + 1, p.postfix, Append(p.ops, token))
             ELSE IF ty = "OpenParen"
             THEN to_postfix(tokens, i + 1, postfix, Append(ops, token))
             ELSE IF ty = "CloseParen"
             THEN LET p == pop_to_paren(postfix, ops)
                  IN  to_postfix(tokens, i + 1, p.postfix, p.ops)
             ELSE to_postfix(tokens, i + 1, Append(postfix, token), ops)

\* the loop that empties the operator stack: an OpenParen left on it is an error
RECURSIVE drain(_, _)
drain(postfix, ops) ==
    IF Len(ops) = 0 THEN Fr("ok", postfix)
    ELSE IF ops[Len(ops)].token_type = "OpenParen" THEN Fr("err", <<>>)
    ELSE drain(Append(postfix, ops[Len(ops)]),
               SubSeq(ops, 1, Len(ops) - 1))

\* the Expression of a literal or identifier token; the text of a string
\* literal token here is one character
Operand(token) ==
    CASE token.token_type = "RuleName" -> Rule(token.value)
      [] token.token_type = "StringLiteral" -> StringLiteral(<<token.value>>)
      [] token.token_type = "Keyword" -> Keyword(token.value)
      [] OTHER -> NoExpr

OperandTypes == {"RuleName", "RegexLiteral", "StringLiteral", "Keyword"}

\* operands without its last n elements
Drop(operands, n) == SubSeq(operands, 1, Len(operands) - n)

\* the DelimitRepeat arm of the second loop: the next postfix token selects
\* the expression; postfix[i + 1] is read unchecked
delimit_repeat(postfix, i, operands) ==
    IF i + 1 > Len(postfix) THEN Fr("panic", <<>>)
    ELSE IF postfix[i + 1].token_type \notin {"RepeatOne", "RepeatZero"}
    THEN Fr("err", <<>>)
    ELSE IF Len(operands) < 2 THEN Fr("panic", <<>>)
    ELSE Fr("ok", [i |-> i + 1,
                   e |-> IF postfix[i + 1].token_type = "RepeatOne"
                         THEN DelimitRepeatOne(operands[Len(operands) - 1],
                                               operands[Len(operands)])
                         ELSE DelimitRepeatZero(operands[Len(operands) - 1],
                                                operands[Len(operands)])])

\* the second loop of to_expression: postfix to Expression.  pop().unwrap()
\* on an empty operand stack panics.
RECURSIVE from_postfix(_, _, _)
from_postfix(postfix, i, operands) ==
    IF i > Len(postfix)
    THEN IF Len(operands) = 0 THEN Fr("panic", NoExpr)
         ELSE Fr("ok", operands[Len(operands)])
    ELSE LET ty == postfix[i].token_type
         IN  CASE ty \in OperandTypes ->
                    from_postfix(postfix, i + 1,
                                 Append(operands, Operand(postfix[i])))
               [] is_unary_operator(ty) ->
                    IF Len(operands) < 1 THEN Fr("panic", NoExpr)
                    ELSE from_postfix(postfix, i + 1,
                           Append(Drop(operands, 1),
                                  Expr(ty, operands[Len(operands)], <<>>, <<>>)))
               [] ty \in {"And", "Or"} ->
                    IF Len(operands) < 2 THEN Fr("panic", NoExpr)
                    ELSE from_postfix(postfix, i + 1,
                           Append(Drop(operands, 2),
                                  Expr(ty, operands[Len(operands) - 1],
                                       operands[Len(operands)], <<>>)))
               [] ty = "DelimitRepeat" ->
                    LET d == delimit_repeat(postfix, i, operands)
                    IN  IF d.st # "ok" THEN Fr(d.st, NoExpr)
                        ELSE from_postfix(postfix, d.v.i + 1,
                                          Append(Drop(operands, 2), d.v.e))
               [] OTHER -> Fr("err", NoExpr)

\* Parser::to_expression
to_expression(tokens) ==
    LET p == to_postfix(tokens, 1, <<>>, <<>>)
        d == drain(p.postfix, p.ops)
    IN  IF d.st # "ok" THEN Fr("err", NoExpr)
        ELSE IF Len(d.v) = 1 /\ d.v[1].token_type \in OperandTypes
        THEN Fr("ok", Operand(d.v[1]))
        ELSE from_postfix(d.v, 1, <<>>)

\* split_into_alternatives: the operands of the outermost Or chain
RECURSIVE split_into_alternatives(_)
split_into_alternatives(expression) ==
    IF expression.tag = "Or"
    THEN split_into_alternatives(expression.a)
             \o split_into_alternatives(expression.b)
    ELSE <<expression>>

\* Parser::parse, one pass of its loop over the rule definitions up to the
\* insertion: the body of a rule is given its implicit Ands, turned into an
\* Expression and split into its alternatives
body_to_alternatives ==
    /\ fe.call = ""
    /\ LET and_phrase == add_implict_ands(fe.arg)
           expression == to_expression(and_phrase.v)
       IN  fe' = [fe EXCEPT
                    !.call = "to_expression",
                    !.res = IF and_phrase.st # "ok" THEN and_phrase.st
                            ELSE expression.st,
                    !.out = IF and_phrase.st = "ok" /\ expression.st = "ok"
                            THEN split_into_alternatives(expression.v)
                            ELSE <<>>,
                    !.expression =
                            IF and_phrase.st = "ok" /\ expression.st = "ok"
                            THEN expression.v ELSE NoExpr]
    /\ UNCHANGED engine

\* the rule definition the pass is about to work on holds any of the bodies
ExprInit == EngineAtRest /\ fe \in {[FE0 EXCEPT !.arg = body] : body \in Bodies}

ExprNext == body_to_alternatives

ExprSpec == ExprInit /\ [][ExprNext]_vars

\* ---- Tokenizer: from the text of a grammar file to its tokens
LowerCase == {"a", "b", "c", "d", "e", "f", "g", "h", "i", "j", "k", "l", "m",
              "n", "o", "p", "q", "r", "s", "t", "u", "v", "w", "x", "y", "z"}

UpperCase == {"A", "B", "C", "D", "E", "F", "G", "H", "I", "J", "K", "L", "M",
              "N", "O", "P", "Q", "R", "S", "T", "U", "V", "W", "X", "Y", "Z"}

LineEnd == {"\r", "\n"}

\* TokenType::all(), in its order
TokenType_all ==
    <<"RuleName", "Keyword", "RegexLiteral", "StringLiteral", "Or", "And",
      "DelimitRepeat", "RepeatOne", "RepeatZero", "Optional", "OpenParen",
      "CloseParen", "RuleDefinition", "ConfigDirective", "MetaRule", "Comment",
      "Whitespace", "Newline">>

\* the one-character token types and their character
SingleChar ==
    [Or |-> "|", And |-> "&", DelimitRepeat |-> ",", RepeatOne |-> "+",
     RepeatZero |-> "*", Optional |-> "?", OpenParen |-> "(",
     CloseParen |-> ")", RuleDefinition |-> ":", ConfigDirective |-> "@",
     MetaRule |-> "$"]

\* length of the longest run of characters outside `excluded' at pos
RECURSIVE RunNot(_, _, _)
RunNot(input, pos, excluded) ==
    IF pos < Len(input) /\ input[pos + 1] \notin excluded
    THEN 1 + RunNot(input, pos + 1, excluded)
    ELSE 0

\* a literal between two quote characters on one line
Quoted(input, pos, quote) ==
    IF pos < Len(input) /\ input[pos + 1] = quote
    THEN LET n == RunNot(input, pos + 1, {quote} \cup LineEnd)
         IN  IF pos + 1 + n < Len(input) /\ input[pos + 2 + n] = quote
             THEN n + 2 ELSE 0
    ELSE 0

\* get_regex(): the length of the match of the token type's anchored
\* pattern at pos, 0 when it does not match
get_regex(token_type, input, pos) ==
    CASE token_type = "RuleName" ->
           IF pos < Len(input) /\ input[pos + 1] \in LowerCase \cup {"_"}
           THEN 1 + RunLen(input, pos + 1, LowerCase \cup DIGITS \cup {"_"})
           ELSE 0
      [] token_type = "Keyword" ->
           IF pos < Len(input) /\ input[pos + 1] \in UpperCase \cup {"_"}
           THEN 1 + RunLen(input, pos + 1, UpperCase \cup DIGITS \cup {"_"})
           ELSE 0
      [] token_type = "RegexLiteral" -> Quoted(input, pos, "\"")
      [] token_type = "StringLiteral" -> Quoted(input, pos, "'")
      [] token_type = "Comment" ->
           IF pos < Len(input) /\ input[pos + 1] = "#"
           THEN 1 + RunNot(input, pos + 1, LineEnd) ELSE 0
      [] token_type = "Whitespace" -> RunLen(input, pos, {" ", "\t", "\f"})
      [] token_type = "Newline" -> RunLen(input, pos, LineEnd)
      [] OTHER ->
           IF pos < Len(input) /\ input[pos + 1] = SingleChar[token_type]
           THEN 1 ELSE 0

\* str::trim_matches(quote)
RECURSIVE trim_matches(_, _)
trim_matches(value, quote) ==
    IF Len(value) > 0 /\ Head(value) = quote
    THEN trim_matches(Tail(value), quote)
    ELSE IF Len(value) > 0 /\ value[Len(value)] = quote
    THEN trim_matches(SubSeq(value, 1, Len(value) - 1), quote)
    ELSE value

\* TokenType::transform
transform(token_type, value) ==
    CASE token_type = "RegexLiteral" -> trim_matches(value, "\"")
      [] token_type = "StringLiteral" -> trim_matches(value, "'")
      [] OTHER -> value

\* the loop of next_token over TokenType::all(): the first type with the
\* longest match
RECURSIVE longest_match(_, _, _, _, _)
longest_match(input, pos, i, longest_length, best_match) ==
    IF i > Len(TokenType_all)
    THEN [longest_length |-> longest_length, best_match |-> best_match]
    ELSE IF get_regex(TokenType_all[i], input, pos) > longest_length
    THEN longest_match(input, pos, i + 1,
                       get_regex(TokenType_all[i], input, pos),
                       TokenType_all[i])
    ELSE longest_match(input, pos, i + 1, longest_length, best_match)

\* Tokenizer::next_token and peek_token at pos: None at the end of the
\* input, an error where no token type matches, else the token and the
\* position after it
next_token(input, pos) ==
    IF pos >= Len(input) THEN Fr("ok", None)
    ELSE LET m == longest_match(input, pos, 1, 0, "")
         IN  IF m.longest_length = 0 THEN Fr("err", None)
             ELSE Fr("ok",
                     Some([token |-> Token(m.best_match,
                                           transform(m.best_match,
                                                     Slice(input, pos,
                                                           pos + m.longest_length))),
                           pos |-> pos + m.longest_length]))

\* the loop of Tokenizer::tokenize: Whitespace and Comment tokens are
\* skipped, and with them a Newline token that follows one directly
RECURSIVE tokenize_loop(_, _, _)
tokenize_loop(input, pos, tokens) ==
    LET t == next_token(input, pos)
    IN  IF t.st # "ok" THEN Fr("err", <<>>)
        ELSE IF ~t.v.some THEN Fr("ok", tokens)
        ELSE IF t.v.v.token.token_type \in {"Whitespace", "Comment"}
        THEN LET next == next_token(input, t.v.v.pos)
             IN  IF next.st # "ok" THEN Fr("err", <<>>)
                 ELSE IF next.v.some /\ next.v.v.token.token_type = "Newline"
                 THEN tokenize_loop(input, next.v.v.pos, tokens)
                 ELSE tokenize_loop(input, t.v.v.pos, tokens)
        ELSE tokenize_loop(input, t.v.v.pos, Append(tokens, t.v.v.token))

\* Tokenizer::tokenize
tokenize(input) == tokenize_loop(input, 0, <<>>)

\* the characters of the grammar texts under analysis
TextAlphabet == {"a", ":", " ", "\t", "\n", "#", "X"}

Texts == Strs(TextAlphabet, MaxText)

\* Tokenizer::new(input).tokenize()
tokenize_text ==
    /\ fe.call = ""
    /\ fe' = [fe EXCEPT !.call = "tokenize",
                        !.res = tokenize(fe.arg).st,
                        !.out = tokenize(fe.arg).v]
    /\ UNCHANGED engine

TokenInit == EngineAtRest /\ fe \in {[FE0 EXCEPT !.arg = input] : input \in Texts}

TokenNext == tokenize_text

TokenSpec == TokenInit /\ [][TokenNext]_vars

\* ---- Parser::parse: from the text of a grammar file to the GramSpec
Structure(tokens, structure_type) ==
    [tokens |-> tokens, structure_type |-> structure_type]

\* self.tokens[self.position].token_type == token_type, an index out of
\* bounds being a panic
At(tokens, pos, token_type) ==
    IF pos >= Len(tokens) THEN "panic"
    ELSE IF tokens[pos + 1].token_type = token_type THEN "yes"
    ELSE "no"

\* the fixed head of a structure: the token types expected one after the
\* other from pos, the tokens at the places in kept being pushed.  Another
\* token in the first place is Ok(None), in a later place an Err.
RECURSIVE expect_head(_, _, _, _, _, _)
expect_head(tokens, pos, types, i, kept, pushed) ==
    IF i > Len(types)
    THEN Fr("ok", Some([tokens |-> pushed, position |-> pos]))
    ELSE IF At(tokens, pos, types[i]) = "panic" THEN Fr("panic", None)
    ELSE IF At(tokens, pos, types[i]) = "no"
    THEN (IF i = 1 THEN Fr("ok", None) ELSE Fr("err", None))
    ELSE expect_head(tokens, pos + 1, types, i + 1, kept,
                     IF i \in kept THEN Append(pushed, tokens[pos + 1])
                     ELSE pushed)

\* the tokens up to a Newline, which is consumed, or to the end of the input
RECURSIVE read_line(_, _, _)
read_line(tokens, pos, pushed) ==
    IF pos >= Len(tokens) THEN [tokens |-> pushed, position |-> pos]
    ELSE IF tokens[pos + 1].token_type = "Newline"
    THEN [tokens |-> pushed, position |-> pos + 1]
    ELSE read_line(tokens, pos + 1, Append(pushed, tokens[pos + 1]))

\* @ name ( 'value' ) newline
expect_config_directive(tokens, pos) ==
    LET h == expect_head(tokens, pos,
                         <<"ConfigDirective", "RuleName", "OpenParen",
                           "StringLiteral", "CloseParen", "Newline">>,
                         1, {2, 4}, <<>>)
    IN  IF h.st = "ok" /\ h.v.some
        THEN Fr("ok", Some([structure |->
                                Structure(h.v.v.tokens, "ConfigDirective"),
                            position |-> h.v.v.position]))
        ELSE h

\* name : body
expect_rule_definition(tokens, pos) ==
    LET h == expect_head(tokens, pos, <<"RuleName", "RuleDefinition">>, 1, {1},
                         <<>>)
    IN  IF h.st = "ok" /\ h.v.some
        THEN LET l == read_line(tokens, h.v.v.position, h.v.v.tokens)
             IN  Fr("ok", Some([structure |->
                                    Structure(l.tokens, "RuleDefinition"),
                                position |-> l.position]))
        ELSE h

\* $ name : body
expect_meta_rule_definition(tokens, pos) ==
    LET h == expect_head(tokens, pos,
                         <<"MetaRule", "RuleName", "RuleDefinition">>, 1, {2},
                         <<>>)
    IN  IF h.st = "ok" /\ h.v.some
        THEN LET l == read_line(tokens, h.v.v.position, h.v.v.tokens)
             IN  Fr("ok", Some([structure |->
                                    Structure(l.tokens, "MetaRuleDefinition"),
                                position |-> l.position]))
        ELSE h

\* if self.position > longest_pos { structure = new_structure; longest_pos =
\* self.position }
Longest(best, found) ==
    IF found.v.some /\ found.v.v.position > best.position THEN found.v.v
    ELSE best

\* the loop of structurize: at each place the three kinds are tried in turn
RECURSIVE structurize_loop(_, _, _)
structurize_loop(tokens, pos, structures) ==
    IF pos >= Len(tokens) THEN Fr("ok", structures)
    ELSE LET c == expect_config_directive(tokens, pos)
             r == expect_rule_definition(tokens, pos)
             m == expect_meta_rule_definition(tokens, pos)
             none == [structure |-> Structure(<<>>, "RuleDefinition"),
                      position |-> 0]
         IN  IF c.st # "ok" THEN Fr(c.st, <<>>)
             ELSE IF r.st # "ok" THEN Fr(r.st, <<>>)
             ELSE IF m.st # "ok" THEN Fr(m.st, <<>>)
             ELSE LET best == Longest(Longest(Longest(none, c), r), m)
                  IN  IF best.position = 0 THEN Fr("err", <<>>)
                      ELSE structurize_loop(tokens, best.position,
                                            Append(structures, best.structure))

structurize(tokens) == structurize_loop(tokens, 0, <<>>)

\* the option names as the texts a RuleName token carries
OptionText ==
    [entry_rule |-> <<"e", "n", "t", "r", "y", "_", "r", "u", "l", "e">>,
     ignore_spaces |->
         <<"i", "g", "n", "o", "r", "e", "_", "s", "p", "a", "c", "e", "s">>,
     ignore_newlines |->
         <<"i", "g", "n", "o", "r", "e", "_", "n", "e", "w", "l", "i", "n", "e",
           "s">>,
     ignore_between_tokens |->
         <<"i", "g", "n", "o", "r", "e", "_", "b", "e", "t", "w", "e", "e", "n",
           "_", "t", "o", "k", "e", "n", "s">>]

\* what Parser::parse does with one structure: a definition's body is given
\* its implicit Ands and turned into an Expression, a directive is applied
define(structure) ==
    IF structure.structure_type = "ConfigDirective"
    THEN IF \E o \in ConfigOptions : OptionText[o] = structure.tokens[1].value
         THEN IF set(GramSpecConfig_new,
                     CHOOSE o \in ConfigOptions :
                         OptionText[o] = structure.tokens[1].value,
                     structure.tokens[2].value).ok
              THEN "ok" ELSE "err"
         ELSE "err"
    ELSE LET and_phrase == add_implict_ands(Tail(structure.tokens))
         IN  IF and_phrase.st # "ok" THEN and_phrase.st
             ELSE to_expression(and_phrase.v).st

\* the three loops of Parser::parse over the structures of one kind
RECURSIVE define_all(_, _)
define_all(structures, i) ==
    IF i > Len(structures) THEN "ok"
    ELSE IF define(structures[i]) # "ok" THEN define(structures[i])
    ELSE define_all(structures, i + 1)

OfType(structures, structure_type) ==
    SelectSeq(structures, LAMBDA x : x.structure_type = structure_type)

\* Parser::new(input).parse(): "ok" for a GramSpec, "err" for an Err,
\* "panic" for an index out of bounds or an unwrap of None
Parser_parse(input) ==
    LET tokens == tokenize(input)
        structures == structurize(tokens.v)
    IN  IF tokens.st # "ok" THEN tokens.st
        ELSE IF structures.st # "ok" THEN structures.st
        ELSE define_all(OfType(structures.v, "RuleDefinition")
                            \o OfType(structures.v, "MetaRuleDefinition")
                            \o OfType(structures.v, "ConfigDirective"), 1)

\* the characters of the grammar files under analysis, and whole files:
\*   a:a 'x'      @entry_rule('a')      $a:a* | a
GrammarAlphabet == {"a", ":", "@", "$", "+", "\n"}

GrammarExamples == {
    <<"a", ":", "a", " ", "'", "x", "'", "\n">>,
    <<"@", "e", "n", "t", "r", "y", "_", "r", "u", "l", "e", "(", "'", "a",
      "'", ")", "\n">>,
    <<"$", "a", ":", "a", "*", " ", "|", " ", "a", "\n">> }

GrammarTexts == Strs(GrammarAlphabet, MaxText) \cup GrammarExamples

parse_text ==
    /\ fe.call = ""
    /\ fe' = [fe EXCEPT !.call = "parse", !.res = Parser_parse(fe.arg)]
    /\ UNCHANGED engine

ParseInit ==
    EngineAtRest /\ fe \in {[FE0 EXCEPT !.arg = input] : input \in GrammarTexts}

ParseNext == parse_text

ParseSpec == ParseInit /\ [][ParseNext]_vars

\* ------------------------------------------------------------- properties
\* the attempts of get_longest_expression_match that matched
Matching(tried) == {i \in DOMAIN tried : tried[i].res.some}

\* the furthest end cursor any alternative left, matching or not
Furthest(tried) ==
    CHOOSE m \in {tried[i].end : i \in DOMAIN tried} :
        \A i \in DOMAIN tried : tried[i].end <= m

\* C1: cursor discipline.  Whenever eval of an expression (a primitive or a
\* combinator) returns no match, the cursor after the call equals the cursor
\* before the call.
C1_CursorDiscipline ==
    (ev.op \in ExprTags /\ ev.via # "panic" /\ ~ev.res.some)
        => ev.end = ev.start

\* C2: rule-level longest match.  When at least one alternative of a rule
\* matched, the rule matches, its result is that of a matching alternative
\* whose end cursor is the greatest among the matching alternatives, and the
\* cursor is left at that end; alternatives that did not match play no part.
C2_RuleLongestMatch ==
    (ev.op = "longest" /\ Matching(ev.tried) # {}) =>
        /\ ev.res.some
        /\ \E i \in Matching(ev.tried) :
              /\ ev.tried[i] = Attempt(ev.res, ev.end)
              /\ \A j \in Matching(ev.tried) : ev.tried[j].end <= ev.tried[i].end

\* both operands of the Or that just returned matched
OrBothMatched == ev.op = "Or" /\ ev.left.res.some /\ ev.right.res.some

\* C3: longest-match alternation.  When both operands of Or match from the
\* same start cursor and one ends further than the other, Or returns the
\* nodes of the one that ends further and leaves the cursor at its end,
\* whichever of the two operands it is: exchanging the operands gives the
\* same result.
C3_OrLongestMatch ==
    (OrBothMatched /\ ev.left.end # ev.right.end) =>
        /\ ev.right.end > ev.left.end => Attempt(ev.res, ev.end) = ev.right
        /\ ev.left.end > ev.right.end => Attempt(ev.res, ev.end) = ev.left
        /\ OrChoice(ev.start, ev.right.res, ev.right.end,
                    ev.left.res, ev.left.end) = Attempt(ev.res, ev.end)

\* an Or whose right operand matched further than its left operand, which
\* matched too, has returned
C3_Witness ==
    /\ OrBothMatched
    /\ ev.right.end > ev.left.end
    /\ ev.left.end > ev.start
    /\ ev.left.res # ev.right.res

\* C4: Or tie.  When both operands of Or match and end at the same cursor,
\* beyond the start cursor, Or returns no match and the cursor is back at
\* the start cursor.
C4_OrTie ==
    (OrBothMatched /\ ev.left.end = ev.right.end /\ ev.left.end > ev.start)
        => ~ev.res.some /\ ev.end = ev.start

\* an Or whose operands both matched to the same end beyond the start has
\* returned
C4_Witness ==
    /\ OrBothMatched
    /\ ev.left.end = ev.right.end
    /\ ev.left.end > ev.start

\* two alternatives of the rule that just returned matched to the same end
\* cursor, and no alternative left the cursor further
RuleTie ==
    /\ ev.op = "longest"
    /\ \E i, j \in Matching(ev.tried) :
          /\ i < j
          /\ ev.tried[i].end = ev.tried[j].end
          /\ ev.tried[i].end = Furthest(ev.tried)

\* C5 as claimed: ties lose at rule level.  When two alternatives of a rule
\* both match and both reach the same furthest end cursor, the rule returns
\* no match and the cursor is restored to the start cursor.
C5_RuleTiesLose ==
    RuleTie => ~ev.res.some /\ ev.end = ev.start

\* C5 as amended: at rule level the first of the tied alternatives wins.
\* When two alternatives of a rule both match and both reach the same
\* furthest end cursor, the rule matches with the nodes of the first
\* alternative that matched to that end, and the cursor is left at that end.
C5_RuleTieFirstWins ==
    RuleTie =>
        LET first == CHOOSE i \in Matching(ev.tried) :
                        /\ ev.tried[i].end = Furthest(ev.tried)
                        /\ \A j \in Matching(ev.tried) :
                              ev.tried[j].end = Furthest(ev.tried) => i <= j
        IN  Attempt(ev.res, ev.end) = ev.tried[first]

\* a rule returned after two of its alternatives matched to the same
\* furthest end with different nodes
C5_Witness ==
    /\ RuleTie
    /\ \E i, j \in Matching(ev.tried) :
          /\ i < j
          /\ ev.tried[i].end = Furthest(ev.tried)
          /\ ev.tried[j].end = Furthest(ev.tried)
          /\ ev.tried[i].res # ev.tried[j].res

\* the text is num ('+' num)^n over decimal digits
IsSumText(t) ==
    /\ Len(t) > 0
    /\ \A i \in 1..Len(t) : t[i] \in DIGITS \cup {"+"}
    /\ t[1] \in DIGITS /\ t[Len(t)] \in DIGITS
    /\ \A i \in 1..(Len(t) - 1) : ~(t[i] = "+" /\ t[i + 1] = "+")

PlusCount(t) == Cardinality({i \in 1..Len(t) : t[i] = "+"})

\* offset at which the number that ends at offset e begins
RECURSIVE NumStart(_, _)
NumStart(t, e) == IF e > 0 /\ t[e] \in DIGITS THEN NumStart(t, e - 1) ELSE e

Leaf(t, from, to) ==
    new_with_position("_String", <<>>, Some(Slice(t, from, to)), from, to)

\* the left-nested tree of the sum text t[0..e)
RECURSIVE SumTree(_, _)
SumTree(t, e) ==
    LET s == NumStart(t, e)
        num == new_with_position("num", <<Leaf(t, s, e)>>, None, s, e)
    IN  IF s = 0 THEN new_with_position("sum", <<num>>, None, 0, e)
        ELSE new_with_position("sum",
                               <<SumTree(t, s - 1), Leaf(t, s - 1, s), num>>,
                               None, 0, e)

\* number of sum nodes on the left spine of n
RECURSIVE LeftSpine(_)
LeftSpine(n) ==
    IF n.node_type = "sum" THEN 1 + LeftSpine(n.children[1]) ELSE 0

\* the numbers of the tree n, read from its left spine outwards
RECURSIVE SpineNumbers(_)
SpineNumbers(n) ==
    IF Len(n.children) = 1 THEN <<n.children[1].children[1].value.v>>
    ELSE Append(SpineNumbers(n.children[1]), n.children[3].children[1].value.v)

\* the numbers of the sum text t[0..e), in input order
RECURSIVE TextNumbers(_, _)
TextNumbers(t, e) ==
    LET s == NumStart(t, e)
    IN  IF s = 0 THEN <<Slice(t, 0, e)>>
        ELSE Append(TextNumbers(t, s - 1), Slice(t, s, e))

\* seed growth of rule sum at offset 0 of a sum text has just returned
SumGrown ==
    /\ gramspec = G_S3
    /\ ev.op = "circular_wrapper" /\ ev.name = "sum" /\ ev.via = "grow"
    /\ ev.start = 0
    /\ IsSumText(content)

\* C6: left-recursion convergence.  For sum : sum '+' num | num dispatched
\* through the seed-growth wrapper at offset 0 of a text num ('+' num)^n,
\* the wrapper consumes the whole text and returns one left-nested tree whose
\* left spine has n+1 sum nodes and whose numbers are those of the text in
\* input order.
C6_LeftRecursionConverges ==
    SumGrown =>
        /\ ev.end = Len(content)
        /\ ev.res = Some(<<SumTree(content, Len(content))>>)
        /\ LeftSpine(ev.res.v[1]) = PlusCount(content) + 1
        /\ SpineNumbers(ev.res.v[1]) = TextNumbers(content, Len(content))

\* seed growth of sum over "1+22+333" returned with the cursor at 8
C6_Witness ==
    /\ SumGrown
    /\ content = <<"1", "+", "2", "2", "+", "3", "3", "3">>
    /\ ev.end = 8
    /\ ev.res.some

\* every seed-growth loop in progress or just ended made at most
\* len(input)+1 passes
SeedLoopBound ==
    /\ \A i \in DOMAIN stack :
          stack[i].op = "circular_wrapper" => stack[i].iters <= Len(content) + 1
    /\ ev.op = "circular_wrapper" => ev.iters <= Len(content) + 1

\* C7: termination.  Every parse call that ended returned a node, no match
\* or an error, and every seed-growth loop runs at most len(input)+1 passes
\* per (offset, rule).
C7_ParseReturns ==
    /\ \A i \in DOMAIN history :
          history[i].outcome.kind \in {"node", "none", "error"}
    /\ SeedLoopBound

\* every parse call ends, by returning or by a panic
ParseEnds == Running ~> (status = "idle")

\* C8: progress guard.  Every pass of a RepeatZero or RepeatOne loop but the
\* last moved the cursor forward, so the loop makes at most (distance
\* covered)+2 evaluations of its operand; on "yyy" both
\* RepeatZero(Optional('x')) and RepeatOne(Optional('x')) end after two
\* evaluations, succeed with no nodes and leave the cursor at 0.
C8_ProgressGuard ==
    /\ \A i \in DOMAIN stack :
          stack[i].op = "Repeat_loop" =>
              stack[i].iters <= (stack[i].end - stack[i].entry) + 2
    /\ (ev.op \in {"RepeatZero", "RepeatOne"}) =>
          ev.iters <= Max(ev.end - ev.start, 0) + 2
    /\ ( /\ ev.op \in {"RepeatZero", "RepeatOne"}
         /\ ev.e.a = Optional(StringLiteral(<<"x">>))
         /\ content = <<"y", "y", "y">> )
          => ev.res = Some(<<>>) /\ ev.start = 0 /\ ev.end = 0 /\ ev.iters = 2

\* RepeatZero(Optional('x')) returned on "yyy" after its operand succeeded
\* twice without moving the cursor
C8_Witness ==
    /\ ev.op = "RepeatZero"
    /\ ev.e.a = Optional(StringLiteral(<<"x">>))
    /\ content = <<"y", "y", "y">>
    /\ ev.iters = 2
    /\ ev.res.some

\* lib.rs parse: the Err of the parser is passed on, nodes.unwrap() panics
\* on Ok(None)
lib_parse(o) == IF o.kind = "none" THEN Outcome("panic", <<>>) ELSE o

\* C9: outcome of parse.  The entry rule is evaluated from offset 0; when it
\* matched, parse returns that root node, wherever the cursor stopped; when
\* it did not match, parse returns an error value, not an absent result and
\* not a crash.
C9_ParseOutcome ==
    ev.op = "parse" =>
        LET o == history[Len(history)].outcome
        IN  /\ ev.start = 0
            /\ (ev.res.some /\ Len(ev.res.v) > 0)
                  => o = Outcome("node", ev.res.v[1])
            /\ ~ev.res.some => o.kind = "error" /\ lib_parse(o).kind = "error"

\* C10: determinism.  Two parse calls of one parser instance on the same
\* input have the same outcome.
C10_Determinism ==
    \A i, j \in DOMAIN history :
        history[i].input = history[j].input
            => history[i].outcome = history[j].outcome

\* the specification with the scheduling of a sequential program: a parse
\* call that has begun keeps running until it ends
LiveSpec == Init /\ [][Next]_vars /\ WF_vars(Step)

\* C11: a failed expect_string or expect_regex, also one that skipped
\* leading blanks and retried, leaves the cursor at the position it had on
\* entry, before any skip.
C11_PrimitiveFailureResets ==
    (ev.op \in {"StringLiteral", "RegexLiteral"} /\ ~ev.res.some)
        => ev.end = ev.start

\* C12: skipping only when configured.  With ignore_spaces and
\* ignore_newlines both false, a successful expect_string or expect_regex
\* matched at the entry cursor and consumed nothing but the match.
C12_SkipOnlyWhenEnabled ==
    ( /\ ~gramspec.config.ignore_spaces /\ ~gramspec.config.ignore_newlines
      /\ ev.op \in {"StringLiteral", "RegexLiteral"} /\ ev.res.some )
        => /\ ev.res.v[1].start_position = ev.start
           /\ ev.end = ev.start + Len(ev.res.v[1].value.v)

\* evaluation has reached a rule reference the dispatcher does not know, or
\* a keyword that is not in the keyword table
ErrorReached ==
    /\ Running
    /\ \/ ctl.mode = "call" /\ ~get_alternatives(gramspec, ctl.name).some
       \/ ctl.mode = "eval" /\ ctl.e.tag = "Keyword"
                            /\ ctl.e.s \notin DOMAIN KEYWORDS

\* C13: errors propagate immediately.  The step that reaches an unknown rule
\* name or an unknown keyword ends the parse call with the error: every
\* suspended alternative, repetition and seed-growth loop is dropped, and
\* the call returns the error and no node.
C13_ErrorsPropagate ==
    [][ErrorReached =>
          /\ status' = "idle"
          /\ stack' = <<>>
          /\ history' = Append(history, [input |-> content,
                                         outcome |-> Outcome("error", <<>>)])]_vars

\* a parse call of the grammar with the unknown names ended with the error
\* while a second alternative was still untried
C13_Witness ==
    /\ gramspec = G_Errors
    /\ status = "idle"
    /\ history # <<>>
    /\ history[Len(history)].outcome = Outcome("error", <<>>)
    /\ Len(content) > 0

\* C16: Discard.  Whenever the operand of Discard matched, also with no
\* nodes, Discard succeeds with exactly one marker without text or children
\* whose span runs from the cursor before the operand to the cursor after it.
C16_DiscardSpan ==
    (ev.op = "Discard" /\ ev.left.res.some) =>
        /\ ev.via # "panic"
        /\ ev.res = Some(<<new_with_position("_Discard", <<>>, None,
                                             ev.start, ev.left.end)>>)

\* the greatest end_position among the descendants of the nodes ns, -1
\* when there are none
RECURSIVE MaxDescEnd(_)
MaxDescEnd(ns) ==
    IF Len(ns) = 0 THEN -1
    ELSE Max(Max(Head(ns).end_position, MaxDescEnd(Head(ns).children)),
             MaxDescEnd(Tail(ns)))

\* the node invariants of the tree n
RECURSIVE NodeOk(_)
NodeOk(n) ==
    /\ n.start_position <= n.end_position
    /\ \A i \in 1..(Len(n.children) - 1) :
          n.children[i].start_position <= n.children[i + 1].start_position
    /\ n.node_type \notin {"_String", "_Discard"} =>
          n.end_position = IF Len(n.children) = 0 THEN n.start_position
                           ELSE MaxDescEnd(n.children)
    /\ \A i \in 1..Len(n.children) : NodeOk(n.children[i])

\* C17: node invariants.  In every tree a parse returned, every node has
\* start <= end, its children are in source order, and the end of every rule
\* node is the greatest end among its descendants, or its start when it has
\* none.
C17_NodeInvariants ==
    \A i \in DOMAIN history :
        history[i].outcome.kind = "node" => NodeOk(history[i].outcome.node)

\* C18: ENDMARKER is the end-of-input sentinel.  Keyword("ENDMARKER")
\* matches only where no input remains, and consumes no character of it.
C18_EndmarkerAtEnd ==
    (ev.op = "Keyword" /\ ev.e.s = "ENDMARKER" /\ ev.res.some)
        => ev.start = Len(content) /\ ev.end = ev.start

\* C19: config setter.  set(name, raw) returns an error and leaves the four
\* options as they were when name is none of the four options or when a
\* boolean option is given a text other than true or false; otherwise it
\* returns ok and changes no option but the named one.
C19_ConfigSet ==
    fe.call = "set" =>
        LET rejected ==
              \/ fe.name \notin ConfigOptions
              \/ /\ fe.name \in {"ignore_spaces", "ignore_newlines"}
                 /\ fe.arg \notin {<<"t", "r", "u", "e">>,
                                   <<"f", "a", "l", "s", "e">>}
        IN  IF rejected
            THEN fe.res = "error" /\ fe.config = fe.before
            ELSE /\ fe.res = "ok"
                 /\ \A o \in ConfigOptions \ {fe.name} :
                       fe.config[o] = fe.before[o]

\* a rejected call on a configuration that earlier calls had changed in
\* every option
C19_Witness ==
    /\ fe.call = "set"
    /\ fe.res = "error"
    /\ fe.name \in ConfigOptions
    /\ \A o \in ConfigOptions : fe.before[o] # GramSpecConfig_new[o]

\* C14: rule names are unique across the three maps.  Registering a
\* definition whose name is already registered, in whichever map, fails with
\* DuplicateRule and leaves the three maps as they were.
C14_DuplicateRule ==
    (fe.call = "register" /\ fe.prev.some) =>
        /\ fe.res = "DuplicateRule"
        /\ get_alternatives(FrontGramSpec, fe.name) = fe.prev

\* the rule names the expression e refers to: along its left spine, or
\* anywhere in it
RECURSIVE Refs(_, _)
Refs(e, leftmost) ==
    IF e.tag = "Rule" THEN {e.s}
    ELSE IF leftmost /\ e.tag \in {"And", "DelimitRepeatZero", "DelimitRepeatOne"}
    THEN Refs(e.a, leftmost)
    ELSE UNION {Refs(Children(e)[i], leftmost) : i \in 1..Len(Children(e))}

\* the rule names referred to by the alternatives of the rules in S
RefsOf(alts, S, leftmost) ==
    UNION {UNION {Refs(alts[n][i], leftmost) : i \in 1..Len(alts[n])} :
           n \in S \cap DOMAIN alts}

\* the rule names reached from S in at most k more steps of the walk
RECURSIVE ReachFrom(_, _, _, _)
ReachFrom(alts, S, leftmost, k) ==
    IF k = 0 THEN S
    ELSE ReachFrom(alts, S \cup RefsOf(alts, S, leftmost), leftmost, k - 1)

\* the walk that starts at the alternatives of rule name comes back to name
ReachesItself(alts, name, leftmost) ==
    name \in ReachFrom(alts, RefsOf(alts, {name}, leftmost), leftmost,
                       Cardinality(DOMAIN alts))

\* the definitions the two GramSpecs look a name up in, as one map
Lookup(g, names, get(_, _)) ==
    [n \in {m \in names : get(g, m).some} |-> get(g, n).v]

\* C15: the left-recursion test.  For a registered rule it answers true
\* exactly when the walk from the rule's alternatives reaches the rule
\* itself; meeting again another name of the path does not make it true.
\* Stated of the test of the engine's GramSpec, which walks every child, and
\* of the test of the generator's GramSpec, which walks the left spine.
C15_LeftRecursive ==
    fe.call = "is_left_circular" =>
        /\ fe.out.gramspec =
             ReachesItself(Lookup(FrontGramSpec, FrontNames, get_alternatives),
                           fe.name, FALSE)
        /\ fe.out.generator =
             ReachesItself(Lookup(FrontGramSpec, FrontNames, get_expression),
                           fe.name, TRUE)

\* the body  x , y rest  with x and y a rule name or a string literal
DelimitedBody(body) ==
    /\ Len(body) >= 3
    /\ body[1].token_type \in OperandTypes
    /\ body[2].token_type = "DelimitRepeat"
    /\ body[3].token_type \in OperandTypes

\* C20: a comma must be followed by + or *.  Of a body  x , y rest : when
\* rest is empty or begins with another token than + or *, the front end
\* returns an error value; when rest is +, the body yields
\* DelimitRepeatOne(x, y); when rest is *, DelimitRepeatZero(x, y).
C20_DelimitRepeatClosed ==
    (fe.call = "to_expression" /\ DelimitedBody(fe.arg)) =>
        LET x == Operand(fe.arg[1])
            y == Operand(fe.arg[3])
            rest == SubSeq(fe.arg, 4, Len(fe.arg))
        IN  /\ (rest = <<>> \/ rest[1].token_type \notin {"RepeatOne", "RepeatZero"})
                  => fe.res = "err"
            /\ rest = <<Token("RepeatOne", "+")>>
                  => fe.res = "ok" /\ fe.out = <<DelimitRepeatOne(x, y)>>
            /\ rest = <<Token("RepeatZero", "*")>>
                  => fe.res = "ok" /\ fe.out = <<DelimitRepeatZero(x, y)>>

\* the expression the grammar language gives the four bodies  a b | c ,
\* a | b c ,  a b+  and  a , b+ c
Expected(body) ==
    LET a == Rule("a")
        b == Rule("b")
        c == Rule("c")
    IN  CASE Len(body) = 4 /\ body[3].token_type = "Or" -> Or(And(a, b), c)
          [] Len(body) = 4 /\ body[2].token_type = "Or" -> Or(a, And(b, c))
          [] Len(body) = 3 -> And(a, RepeatOne(b))
          [] OTHER -> And(DelimitRepeatOne(a, b), c)

\* C21: operator precedence, highest first: ',', postfix + * ?,
\* concatenation, '|'.  The bodies  a b | c ,  a | b c ,  a b+  and
\* a , b+ c  are built into Or(And(a,b),c), Or(a,And(b,c)),
\* And(a,RepeatOne(b)) and And(DelimitRepeatOne(a,b),c).
C21_Precedence ==
    (fe.call = "to_expression" /\ fe.arg \in ExampleBodies)
        => fe.res = "ok" /\ fe.expression = Expected(fe.arg)

\* the body  a b | c  has been built
C21_Witness ==
    /\ fe.call = "to_expression"
    /\ fe.arg \in ExampleBodies
    /\ Len(fe.arg) = 4 /\ fe.arg[3].token_type = "Or"
    /\ fe.res = "ok"

\* every token of the text, skipped ones included, with the position it
\* starts at
RECURSIVE RawTokens(_, _)
RawTokens(input, pos) ==
    LET t == next_token(input, pos)
    IN  IF t.st # "ok" \/ ~t.v.some THEN <<>>
        ELSE <<[token_type |-> t.v.v.token.token_type, pos |-> pos]>>
                 \o RawTokens(input, t.v.v.pos)

\* the text with the character w put in at position pos
InsertAt(input, pos, w) ==
    SubSeq(input, 1, pos) \o <<w>> \o SubSeq(input, pos + 1, Len(input))

\* the positions of the text between two tokens of a line, or between the
\* last token of a line and its line terminator
InLineGaps(input) ==
    LET raw == RawTokens(input, 0)
    IN  {raw[k].pos : k \in {j \in 2..Len(raw) :
                               raw[j - 1].token_type \notin {"Newline", "Comment"}}}

\* C22: whitespace within a line is insignificant.  A space or tab added
\* between two tokens of a line, or between the last token of a line and its
\* line terminator, leaves the token sequence of tokenize as it was, the
\* Newline that ends the line included.
C22_WhitespaceInsignificant ==
    (fe.call = "tokenize" /\ fe.res = "ok") =>
        \A pos \in InLineGaps(fe.arg), w \in {" ", "\t"} :
            tokenize(InsertAt(fe.arg, pos, w)) = Fr("ok", fe.out)

\* the first evaluation of the operand, of the call recorded in ev, failed
FirstFailed ==
    \/ ev.op = "Optional" /\ ~ev.left.res.some
    \/ ev.op = "RepeatZero" /\ ev.iters = 1
    \/ ev.op = "DelimitRepeatZero" /\ ev.iters = 0

\* C23: Optional(a), RepeatZero(a) and DelimitRepeatZero(a, d) never return
\* no match; when the first evaluation of a fails they succeed with the
\* empty node sequence and the cursor is where it was on entry to the
\* combinator.
C23_NeverFail ==
    (ev.op \in {"Optional", "RepeatZero", "DelimitRepeatZero"}
         /\ ev.via # "panic") =>
        /\ ev.res.some
        /\ FirstFailed => ev.res.v = <<>> /\ ev.end = ev.start

\* the node is what a match of the rule reference or string literal e
\* returns
NodeOf(e, node) ==
    IF e.tag = "Rule" THEN node.node_type = e.s
    ELSE node.node_type = "_String" /\ node.value = Some(e.s)

\* the nodes are matches of a, d, a, ..., a, one after the other in the
\* text, and the cursor is at the end of the last
Alternating(nodes, a, d, cursor) ==
    /\ Len(nodes) % 2 = 1
    /\ \A i \in DOMAIN nodes : NodeOf(IF i % 2 = 1 THEN a ELSE d, nodes[i])
    /\ \A i \in 1..(Len(nodes) - 1) :
          nodes[i].end_position <= nodes[i + 1].start_position
    /\ cursor = nodes[Len(nodes)].end_position

\* C24: delimited repetition never consumes a dangling delimiter.  Of
\* DelimitRepeatOne(a, d) and DelimitRepeatZero(a, d) with a and d a rule
\* reference or a string literal: a non-empty result is the alternating
\* sequence a, d, a, ..., a and the cursor is at the end of its last a, also
\* when the last iteration matched d and then failed on a.  digit,(',')+ on
\* "1,2,3" gives digits at 0, 2, 4 and commas at 1, 3.
C24_NoDanglingDelimiter ==
    /\ ( /\ ev.op \in {"DelimitRepeatOne", "DelimitRepeatZero"}
         /\ ev.e.a.tag \in {"Rule", "StringLiteral"}
         /\ ev.e.b.tag \in {"Rule", "StringLiteral"}
         /\ ev.res.some /\ ev.res.v # <<>> )
           => Alternating(ev.res.v, ev.e.a, ev.e.b, ev.end)
    /\ \A i \in DOMAIN history :
          (gramspec = G_S2 /\ history[i].input = <<"1", ",", "2", ",", "3">>)
              => /\ history[i].outcome.kind = "node"
                 /\ [k \in 1..5 |->
                       <<history[i].outcome.node.children[k].node_type,
                         history[i].outcome.node.children[k].start_position>>]
                    = << <<"digit", 0>>, <<"_String", 1>>, <<"digit", 2>>,
                         <<"_String", 3>>, <<"digit", 4>> >>

\* a delimited repetition returned after an iteration in which the delimiter
\* matched and the expression failed
C24_Witness ==
    /\ ev.op \in {"DelimitRepeatOne", "DelimitRepeatZero"}
    /\ ev.e.a.tag \in {"Rule", "StringLiteral"}
    /\ ev.e.b.tag \in {"Rule", "StringLiteral"}
    /\ ev.via = "dangling"
    /\ ev.left.res.some /\ ev.left.res.v # <<>>

\* C25: memo eviction.  When the seed-growth wrapper for (pos, name) ends
\* with a failure, the memo holds no entry for (pos, name) once the wrapper
\* has returned.
C25_FailureEvicted ==
    (ev.op = "circular_wrapper" /\ ev.via = "grow" /\ ~ev.res.some)
        => <<ev.start, ev.name>> \notin DOMAIN memos

\* a seed growth ended with a failure while the memo held other entries
C25_Witness ==
    /\ ev.op = "circular_wrapper" /\ ev.via = "grow" /\ ~ev.res.some
    /\ memos # <<>>

\* C26: memo hit.  A wrapper that finds an entry for (pos, name) returns the
\* stored nodes and leaves the cursor where it was when that result was
\* stored, pos for a stored failure: the end recomputed from the stored nodes
\* equals the saved cursor.
C26_HitRestoresSavedEnd ==
    (ev.op = "circular_wrapper" /\ ev.via = "hit") =>
        LET key == <<ev.start, ev.name>>
        IN  /\ key \in DOMAIN memos
            /\ ev.res = memos[key]
            /\ position = ev.end
            /\ ev.end = saved[key].end
            /\ ~ev.res.some => ev.end = ev.start

\* C27: memoization keyed on (offset, rule name) is safe.  Every result
\* returned from the memo for a key (pos, name), other than the seed read
\* inside the growth loop of that key, is the result and the end cursor that
\* evaluating rule name at pos of the same text with an empty memo returns.
C27_MemoIsFresh ==
    ev.op = "fresh" => ev.left.res = ev.res /\ ev.left.end = ev.end

\* C28: rule dispatch restores the cursor on failure.  Whenever call_rule
\* returns no match, from the rule function, from a growth of circular_wrapper
\* or from a memo hit, the cursor is where it was at the call, even when an
\* alternative left it advanced.
C28_DispatchRestores ==
    (ev.op \in {"Rule", "rule_fn", "circular_wrapper", "longest"} /\ ~ev.res.some)
        => ev.end = ev.start /\ position = ev.start

\* a rule failed although one of its alternatives had left the cursor advanced
C28_Witness ==
    /\ ev.op = "longest" /\ ~ev.res.some
    /\ \E i \in 1..Len(ev.tried) : ev.tried[i].end > ev.start

\* C29: a parser instance can be reused.  Whatever parse calls came before,
\* parse(x) returns what it returned on the new instance, no memo entry
\* written while parsing another text is read, and the cursor never exceeds
\* the length of x.
C29_Reusable ==
    /\ position <= Len(content)
    /\ (ev.op = "circular_wrapper" /\ ev.via = "hit")
          => saved[<<ev.start, ev.name>>].input = content
    /\ \A j \in 1..Len(history) :
          history[j].input = history[1].input
              => history[j].outcome = history[1].outcome

\* C30: the grammar front end is total.  For the text of any grammar file,
\* also one that ends inside a construct or holds a rule with an empty body,
\* Parser::parse returns a GramSpec or an error: it reads no token, no
\* postfix entry and no operand that is not there.
C30_FrontEndTotal == fe.call = "parse" => fe.res \in {"ok", "err"}

=============================================================================
